---- MODULE Spec2Model ----
(***************************************************************************)
(* State-machine model of plover/oslayer/linux/keyboardcontrol_uinput.py:  *)
(* the KeyboardCapture object (start / cancel / suppress and the _run      *)
(* worker thread with its _should_suppress closure), the evdev input       *)
(* devices it grabs and the uinput device it re-emits to.                  *)
(***************************************************************************)
EXTENDS Integers, Sequences, FiniteSets, TLC

\* ------------------------------------------------------------------ bounds
\* number of input devices accepted by _get_devices (self._devices = 1..NumDevices)
NumDevices == 2
\* Spec: number of events the keyboards produce in a behaviour
MaxEvents == 2
\* Spec: number of start() calls the owner makes
MaxStarts == 2
\* Spec: number of cancel() calls the owner makes
MaxCancels == 2
\* Spec: number of keyboards that get unplugged
MaxUnplugs == 1
\* LoopSpec: number of events the keyboards produce in a behaviour
LoopMaxEvents == 4
\* LoopSpec: number of cancel() calls the owner makes
LoopMaxCancels == 1
\* LoopSpec: number of start() calls the owner makes
LoopMaxStarts == 1
\* RestartSpec: number of events the keyboards produce in a behaviour
RestartMaxEvents == 3
\* RestartSpec: number of cancel() calls the owner makes
RestartMaxCancels == 1

\* ------------------------------------------------- evdev protocol constants
EV_SYN == 0
EV_KEY == 1
SYN_REPORT == 0
key_up == 0
key_down == 1
key_hold == 2
KEY_LEFTCTRL == 29
KEY_A == 30
KEY_LEFTSHIFT == 42
KEY_RIGHTSHIFT == 54
KEY_LEFTALT == 56
KEY_CAPSLOCK == 58
KEY_RIGHTCTRL == 97
KEY_RIGHTALT == 100
KEY_LEFTMETA == 125
KEY_RIGHTMETA == 126
\* scan codes of the layout tables and event codes of other input devices
KEY_ESC == 1
KEY_1 == 2
KEY_2 == 3
KEY_3 == 4
KEY_4 == 5
KEY_5 == 6
KEY_6 == 7
KEY_7 == 8
KEY_8 == 9
KEY_9 == 10
KEY_0 == 11
KEY_MINUS == 12
KEY_EQUAL == 13
KEY_BACKSPACE == 14
KEY_TAB == 15
KEY_Q == 16
KEY_W == 17
KEY_E == 18
KEY_R == 19
KEY_T == 20
KEY_Y == 21
KEY_U == 22
KEY_I == 23
KEY_O == 24
KEY_P == 25
KEY_LEFTBRACE == 26
KEY_RIGHTBRACE == 27
KEY_ENTER == 28
KEY_S == 31
KEY_D == 32
KEY_F == 33
KEY_G == 34
KEY_H == 35
KEY_J == 36
KEY_K == 37
KEY_L == 38
KEY_SEMICOLON == 39
KEY_APOSTROPHE == 40
KEY_GRAVE == 41
KEY_BACKSLASH == 43
KEY_Z == 44
KEY_X == 45
KEY_C == 46
KEY_V == 47
KEY_B == 48
KEY_N == 49
KEY_M == 50
KEY_COMMA == 51
KEY_DOT == 52
KEY_SLASH == 53
KEY_SPACE == 57
EV_REL == 2
EV_ABS == 3
REL_X == 0
ABS_X == 0
KEY_POWER == 116
BTN_LEFT == 272
BTN_TOUCH == 330

\* MODIFIER_KEY_CODES, the fixed set of modifier scan codes
MODIFIER_KEY_CODES ==
    { KEY_LEFTSHIFT, KEY_RIGHTSHIFT, KEY_LEFTCTRL, KEY_RIGHTCTRL,
      KEY_LEFTALT, KEY_RIGHTALT, KEY_LEFTMETA, KEY_RIGHTMETA }

\* The entries of LAYOUTS["qwerty"] for the scan codes the keyboards of the
\* model can produce, in the insertion order of the dict (BASE_LAYOUT first).
QwertyEntries ==
    << [key |-> "shift_l", keycode |-> KEY_LEFTSHIFT, modifiers |-> << >>],
       [key |-> "shift",   keycode |-> KEY_LEFTSHIFT, modifiers |-> << >>],
       [key |-> "a",       keycode |-> KEY_A,         modifiers |-> << >>],
       [key |-> "A",       keycode |-> KEY_A,         modifiers |-> <<KEY_LEFTSHIFT>>] >>

\* {v.keycode: key for key, v in items if len(v.modifiers) == 0}: a later entry
\* for the same keycode overwrites an earlier one.
RECURSIVE InvertLayout(_, _)
InvertLayout(entries, acc) ==
    IF entries = << >> THEN acc
    ELSE LET en == Head(entries)
             nxt == IF Len(en.modifiers) = 0
                    THEN [c \in (DOMAIN acc) \cup {en.keycode} |->
                             IF c = en.keycode THEN en.key ELSE acc[c]]
                    ELSE acc
         IN  InvertLayout(Tail(entries), nxt)

KEYCODES_TO_SUPRESS == InvertLayout(QwertyEntries, << >>)

\* ------------------------------------------------------------ the keyboards
Devices == 1..NumDevices
\* scan codes the modelled keyboards can produce: a modifier, a mapped
\* non-modifier key and a key with no qwerty entry
ScanCodes == { KEY_LEFTSHIFT, KEY_A, KEY_CAPSLOCK }
KeyEv(c, v) == [type |-> EV_KEY, code |-> c, value |-> v]
SynEv == [type |-> EV_SYN, code |-> SYN_REPORT, value |-> 0]
\* arguments the owner passes to suppress()
SuppressArgs == { {}, {"a", "shift"} }
\* selector key of the cancellation pipe (devices are keyed by their index)
PipeKey == 0

VARIABLES
    present,        \* present[d]: the device node still exists (not unplugged)
    held,           \* held[d]: device.active_keys(), the keys physically down
    queue,          \* queue[d]: events buffered on our file descriptor of d
    grabbed,        \* grabbed[d]: our descriptor holds the exclusive grab
    produced,       \* number of events the keyboards have produced so far
    stream,         \* stream[d]: every event keyboard d has produced, oldest first
    registered,     \* registered[d]: d is registered with self._selector
    pipe,           \* bytes waiting in the cancellation pipe
    suppressed_keys,\* self._suppressed_keys
    thread,         \* self._thread: "None" or "Thread"
    running,        \* self._running
    ui_closed,      \* self._ui.close() has been called
    ui_out,         \* events written to self._ui by write_event, oldest first
    ui_src,         \* for each event of ui_out, the device it was read from and
                    \* its position in that device's stream
    callbacks,      \* key_down / key_up calls made to the consumer, oldest first
    last,           \* what the latest iteration of the event loop of this run did
    history,        \* the events this run has iterated over, each with its outcome
    owner_pc,       \* where the owning thread is inside start() / cancel()
    grab_idx,       \* _grab_devices: index of the device of the for loop
    grab_batch,     \* _grab_devices: events of read_loop()'s current read()
    reg_idx,        \* start(): index of the device of the register loop
    start_raised,   \* the call whose exception ended the last start(), or "none"
    owner_done,     \* the call that ended last: "start", "cancel" or "none"
    cycled,         \* a start() / cancel() cycle has completed: cancel() joined a thread
    starts,         \* start() calls made so far
    cancels,        \* cancel() calls made so far
    worker_pc,      \* where the _run thread is
    ready,          \* _run: selector keys of select() not yet iterated
    batch,          \* _run: events of device.read() not yet iterated
    src_dev,        \* _run: the device `batch` was read from, 0 when batch is empty
    src_idx,        \* the position of the head of `batch` in stream[src_dev]
    down_modifier_keys,         \* _run local
    keys_pressed_with_modifier, \* _run local
    cleanup_idx,    \* _run finally: index of the device of the for loop
    ungrab_tried,   \* _run finally: devices on which ungrab() has been called
    left_by,        \* how this run left its try block: "return", "raise" or "none"
    replaced,       \* threads of earlier start() calls that were still alive when
                    \* self._thread was overwritten and have yet to finish
    candidates,     \* the input devices of the system, as list_devices() orders them
    accepted,       \* what _get_devices() returned (self._devices)
    listed,         \* _get_devices() has run
    has_layout,     \* KeyboardEmulation: _update_layout() has set the table
    KEY_TO_KEYCODEINFO, \* KeyboardEmulation: self._KEY_TO_KEYCODEINFO
    emu_out,        \* KeyboardEmulation: what was written to its self._ui
    emu_log,        \* KeyboardEmulation: the warnings it logged
    emu_call,       \* KeyboardEmulation: the latest call and where its output starts
    emu_calls       \* KeyboardEmulation: calls made so far

envVars == << present, held, queue, produced, stream >>
ownerVars == << suppressed_keys, thread, running, owner_pc, grab_idx, grab_batch,
                start_raised, owner_done, cycled, starts, cancels >>
workerVars == << worker_pc, ready, batch, src_dev, src_idx, down_modifier_keys,
                 keys_pressed_with_modifier, cleanup_idx, ungrab_tried, left_by >>
\* what the consumer and the uinput device have seen of the event loop
seenVars == << ui_out, ui_src, callbacks, last, history >>
\* the device discovery of KeyboardCapture.__init__
discVars == << candidates, accepted, listed >>
\* the KeyboardEmulation object
emuVars == << has_layout, KEY_TO_KEYCODEINFO, emu_out, emu_log, emu_call, emu_calls >>
\* the KeyboardCapture object, its keyboards and its uinput device
captureVars == << present, held, queue, grabbed, produced, stream, registered, pipe,
           suppressed_keys, thread, running, ui_closed, ui_out, ui_src, callbacks,
           last, history, owner_pc, grab_idx, grab_batch, start_raised, owner_done, cycled,
           starts, cancels, worker_pc, ready, batch, src_dev, src_idx,
           down_modifier_keys, keys_pressed_with_modifier, cleanup_idx,
           ungrab_tried, left_by, replaced, reg_idx >>
vars == << captureVars, discVars, emuVars >>

\* The record kept in `last`: the event of the iteration, the values of
\* down_modifier_keys, keys_pressed_with_modifier and self._suppressed_keys the
\* iteration started with, and how it ended: "written" (write_event returned),
\* "suppressed" (continue), or the exception that left the loop: "KeyError",
\* "callback" (key_down / key_up raised), "write_event".
Iteration(event, outcome) ==
    [event |-> event, dm |-> down_modifier_keys, kpm |-> keys_pressed_with_modifier,
     sk |-> suppressed_keys, outcome |-> outcome]

NoIteration ==
    [event |-> SynEv, dm |-> {}, kpm |-> {}, sk |-> {}, outcome |-> "none"]

\* KeyboardCapture.__init__: devices opened (not grabbed), pipe registered with
\* the selector, uinput device open, no thread.
CaptureInit ==
    /\ present = [d \in Devices |-> TRUE]
    /\ held = [d \in Devices |-> {}]
    /\ queue = [d \in Devices |-> << >>]
    /\ grabbed = [d \in Devices |-> FALSE]
    /\ produced = 0
    /\ stream = [d \in Devices |-> << >>]
    /\ registered = [d \in Devices |-> FALSE]
    /\ pipe = 0
    /\ suppressed_keys = {}
    /\ thread = "None"
    /\ running = FALSE
    /\ ui_closed = FALSE
    /\ ui_out = << >>
    /\ ui_src = << >>
    /\ callbacks = << >>
    /\ last = NoIteration
    /\ history = << >>
    /\ owner_pc = "idle"
    /\ grab_idx = 1
    /\ grab_batch = << >>
    /\ start_raised = "none"
    /\ owner_done = "none"
    /\ cycled = FALSE
    /\ starts = 0
    /\ cancels = 0
    /\ worker_pc = "none"
    /\ ready = {}
    /\ batch = << >>
    /\ src_dev = 0
    /\ src_idx = 0
    /\ down_modifier_keys = {}
    /\ keys_pressed_with_modifier = {}
    /\ cleanup_idx = 1
    /\ ungrab_tried = {}
    /\ left_by = "none"
    /\ replaced = 0
    /\ reg_idx = 1

appVars == << grabbed, registered, pipe, ui_closed, seenVars, ownerVars, workerVars >>

\* ---------------------------------------------------- the physical keyboards
\* A key goes down on keyboard d: the kernel marks it active and queues the
\* event on every open descriptor of the device, ours included.
KeyPress(d, c, budget) ==
    /\ UNCHANGED << discVars, emuVars, replaced, reg_idx >>
    /\ present[d] /\ c \notin held[d] /\ produced < budget
    /\ held' = [held EXCEPT ![d] = @ \cup {c}]
    /\ queue' = [queue EXCEPT ![d] = Append(@, KeyEv(c, key_down))]
    /\ stream' = [stream EXCEPT ![d] = Append(@, KeyEv(c, key_down))]
    /\ produced' = produced + 1
    /\ UNCHANGED << present, appVars >>

KeyRelease(d, c, budget) ==
    /\ UNCHANGED << discVars, emuVars, replaced, reg_idx >>
    /\ present[d] /\ c \in held[d] /\ produced < budget
    /\ held' = [held EXCEPT ![d] = @ \ {c}]
    /\ queue' = [queue EXCEPT ![d] = Append(@, KeyEv(c, key_up))]
    /\ stream' = [stream EXCEPT ![d] = Append(@, KeyEv(c, key_up))]
    /\ produced' = produced + 1
    /\ UNCHANGED << present, appVars >>

\* autorepeat of a key that is held
KeyRepeat(d, c, budget) ==
    /\ UNCHANGED << discVars, emuVars, replaced, reg_idx >>
    /\ present[d] /\ c \in held[d] /\ produced < budget
    /\ queue' = [queue EXCEPT ![d] = Append(@, KeyEv(c, key_hold))]
    /\ stream' = [stream EXCEPT ![d] = Append(@, KeyEv(c, key_hold))]
    /\ produced' = produced + 1
    /\ UNCHANGED << present, held, appVars >>

\* the EV_SYN report that closes a packet of key events
SynReport(d, budget) ==
    /\ UNCHANGED << discVars, emuVars, replaced, reg_idx >>
    /\ present[d] /\ produced < budget
    /\ queue[d] # << >> /\ queue[d][Len(queue[d])].type = EV_KEY
    /\ queue' = [queue EXCEPT ![d] = Append(@, SynEv)]
    /\ stream' = [stream EXCEPT ![d] = Append(@, SynEv)]
    /\ produced' = produced + 1
    /\ UNCHANGED << present, held, appVars >>

\* The keyboard is unplugged: the kernel drops its grab and its key state; every
\* later ioctl or read on our descriptor raises OSError (ENODEV).
Unplug(d) ==
    /\ UNCHANGED << discVars, emuVars, replaced, reg_idx >>
    /\ present[d]
    /\ Cardinality({x \in Devices : ~present[x]}) < MaxUnplugs
    /\ present' = [present EXCEPT ![d] = FALSE]
    /\ held' = [held EXCEPT ![d] = {}]
    /\ grabbed' = [grabbed EXCEPT ![d] = FALSE]
    /\ UNCHANGED << queue, produced, stream, registered, pipe, ui_closed, seenVars,
                    ownerVars, workerVars >>

\* --------------------------------------------------------- _should_suppress
\* The closure _should_suppress(event) of _run, called for EV_KEY events: the
\* decision and the new values of the two sets it updates. dm is
\* down_modifier_keys, kpm keys_pressed_with_modifier, sk self._suppressed_keys.
should_suppress(event, dm, kpm, sk) ==
    IF event.code \in MODIFIER_KEY_CODES
    THEN [suppress |-> FALSE,
          dm |-> IF event.value = key_down THEN dm \cup {event.code}
                 ELSE IF event.value = key_up THEN dm \ {event.code}
                 ELSE dm,
          kpm |-> kpm]
    ELSE IF event.code \notin DOMAIN KEYCODES_TO_SUPRESS
    THEN [suppress |-> FALSE, dm |-> dm, kpm |-> kpm]
    ELSE IF event.value = key_down /\ dm # {}
    THEN [suppress |-> FALSE, dm |-> dm, kpm |-> kpm \cup {event.code}]
    ELSE IF event.value = key_up /\ event.code \in kpm
    THEN [suppress |-> FALSE, dm |-> dm, kpm |-> kpm \ {event.code}]
    ELSE [suppress |-> KEYCODES_TO_SUPRESS[event.code] \in sk, dm |-> dm, kpm |-> kpm]

\* ------------------------------------------------------ the owning thread
\* suppress(suppressed_keys)
Suppress(keys) ==
    /\ UNCHANGED << discVars, emuVars, replaced, reg_idx >>
    /\ owner_pc = "idle"
    /\ suppressed_keys' = keys
    /\ UNCHANGED << envVars, grabbed, registered, pipe, ui_closed, seenVars,
                    thread, running, owner_pc, grab_idx, grab_batch, start_raised,
                    owner_done, cycled, starts, cancels, workerVars >>

\* start() is entered; it tests nothing, so it is entered as well while the
\* _run thread of an earlier start() is alive.
StartCall(budget) ==
    /\ UNCHANGED << discVars, emuVars, replaced, reg_idx >>
    /\ owner_pc = "idle" /\ starts < budget
    /\ owner_pc' = "grab_check"
    /\ grab_idx' = 1
    /\ grab_batch' = << >>
    /\ starts' = starts + 1
    /\ UNCHANGED << envVars, grabbed, registered, pipe, ui_closed, seenVars,
                    suppressed_keys, thread, running, start_raised, owner_done, cycled,
                    cancels, workerVars >>

\* start() ends with the exception raised by `call`
StartRaises(call) ==
    /\ owner_pc' = "idle"
    /\ start_raised' = call
    /\ owner_done' = "start"
    /\ grab_batch' = << >>
    /\ UNCHANGED << grab_idx, suppressed_keys, thread, running, starts, cancels,
                    cycled >>

\* start() goes on to the step `pc`
StartGoes(pc) ==
    /\ owner_pc' = pc
    /\ UNCHANGED << grab_idx, grab_batch, start_raised, owner_done, cycled, suppressed_keys,
                    thread, running, starts, cancels >>

\* _grab_devices: the head of the for loop and `if len(device.active_keys()) > 0`;
\* after the last device _grab_devices returns to the register loop of start()
GrabCheck ==
    /\ UNCHANGED << discVars, emuVars, replaced >>
    /\ owner_pc = "grab_check"
    /\ IF grab_idx > NumDevices
       THEN StartGoes("register") /\ reg_idx' = 1
       ELSE /\ IF ~present[grab_idx]
               THEN StartRaises("active_keys")
               ELSE StartGoes(IF held[grab_idx] # {} THEN "grab_wait" ELSE "grab")
            /\ UNCHANGED reg_idx
    /\ UNCHANGED << envVars, grabbed, registered, pipe, ui_closed, seenVars,
                    workerVars >>

\* _grab_devices: `for _ in device.read_loop()` asks for the next event: the
\* generator yields the next event of its current read() when it has one left
\* (the event is discarded); otherwise it waits in select() until the device
\* is readable: events are buffered or the device is gone.
GrabWait ==
    /\ UNCHANGED << discVars, emuVars, replaced, reg_idx >>
    /\ owner_pc = "grab_wait"
    /\ IF grab_batch # << >>
       THEN /\ grab_batch' = Tail(grab_batch)
            /\ owner_pc' = "grab_active_keys"
       ELSE /\ queue[grab_idx] # << >> \/ ~present[grab_idx]
            /\ owner_pc' = "grab_read"
            /\ UNCHANGED grab_batch
    /\ UNCHANGED << grab_idx, start_raised, owner_done, cycled, suppressed_keys,
                    thread, running, starts, cancels >>
    /\ UNCHANGED << envVars, grabbed, registered, pipe, ui_closed, seenVars,
                    workerVars >>

\* _grab_devices: the read() of read_loop() after its select(): it takes every
\* buffered event of the device and the generator yields the first; it raises
\* OSError on an unplugged device and BlockingIOError when the _run thread has
\* taken the events in the meantime.
GrabRead ==
    /\ UNCHANGED << discVars, emuVars, replaced, reg_idx >>
    /\ owner_pc = "grab_read"
    /\ LET d == grab_idx
       IN  IF present[d] /\ queue[d] # << >>
           THEN /\ queue' = [queue EXCEPT ![d] = << >>]
                /\ grab_batch' = Tail(queue[d])
                /\ owner_pc' = "grab_active_keys"
                /\ UNCHANGED << grab_idx, start_raised, owner_done, cycled,
                                suppressed_keys, thread, running, starts, cancels >>
           ELSE /\ StartRaises("read_loop")
                /\ UNCHANGED queue
    /\ UNCHANGED << present, held, produced, stream, grabbed, registered, pipe,
                    ui_closed, seenVars, workerVars >>

\* _grab_devices: `if len(device.active_keys()) == 0: break` in the body of
\* the read_loop: active_keys() raises on an unplugged device; on break the
\* generator and the rest of its read() are dropped.
GrabActiveKeys ==
    /\ UNCHANGED << discVars, emuVars, replaced, reg_idx >>
    /\ owner_pc = "grab_active_keys"
    /\ IF ~present[grab_idx]
       THEN StartRaises("active_keys")
       ELSE /\ IF held[grab_idx] = {}
               THEN owner_pc' = "grab" /\ grab_batch' = << >>
               ELSE owner_pc' = "grab_wait" /\ UNCHANGED grab_batch
            /\ UNCHANGED << grab_idx, start_raised, owner_done, cycled, suppressed_keys,
                            thread, running, starts, cancels >>
    /\ UNCHANGED << envVars, grabbed, registered, pipe, ui_closed, seenVars,
                    workerVars >>

\* _grab_devices: device.grab(); EVIOCGRAB fails with ENODEV on an unplugged
\* device and with EBUSY on a device that is already grabbed.
GrabDevice ==
    /\ UNCHANGED << discVars, emuVars, replaced, reg_idx >>
    /\ owner_pc = "grab"
    /\ LET d == grab_idx
       IN  IF present[d] /\ ~grabbed[d]
           THEN /\ grabbed' = [grabbed EXCEPT ![d] = TRUE]
                /\ grab_idx' = grab_idx + 1
                /\ owner_pc' = "grab_check"
                /\ UNCHANGED << grab_batch, start_raised, owner_done, cycled, suppressed_keys,
                                thread, running, starts, cancels >>
           ELSE /\ StartRaises("grab")
                /\ UNCHANGED grabbed
    /\ UNCHANGED << envVars, registered, pipe, ui_closed, seenVars, workerVars >>

\* start(): one iteration of `for device in self._devices:
\* self._selector.register(device, ...)`; register raises KeyError on a device
\* that is registered already.
StartRegister ==
    /\ UNCHANGED << discVars, emuVars, replaced >>
    /\ owner_pc = "register" /\ reg_idx <= NumDevices
    /\ IF registered[reg_idx]
       THEN /\ StartRaises("register")
            /\ UNCHANGED << registered, reg_idx >>
       ELSE /\ registered' = [registered EXCEPT ![reg_idx] = TRUE]
            /\ reg_idx' = reg_idx + 1
            /\ UNCHANGED << owner_pc, grab_idx, grab_batch, start_raised, owner_done,
                            cycled, suppressed_keys, thread, running, starts, cancels >>
    /\ UNCHANGED << envVars, grabbed, pipe, ui_closed, seenVars, workerVars >>

\* start(): self._thread = Thread(target=self._run) and self._thread.start():
\* the new thread enters _run with two empty sets and runs on while start() has
\* not returned. A thread of an earlier start() that is still alive is no
\* longer referred to by self._thread and runs on; by ReplacedThreadAtClose it
\* is about to call self._ui.close().
StartThread ==
    /\ UNCHANGED << discVars, emuVars, reg_idx >>
    /\ owner_pc = "register" /\ reg_idx > NumDevices
    /\ thread' = "Thread"
    /\ owner_pc' = "set_running"
    /\ worker_pc' = "select"
    /\ ready' = {}
    /\ batch' = << >>
    /\ src_dev' = 0
    /\ src_idx' = 0
    /\ down_modifier_keys' = {}
    /\ keys_pressed_with_modifier' = {}
    /\ cleanup_idx' = 1
    /\ ungrab_tried' = {}
    /\ left_by' = "none"
    /\ last' = NoIteration
    /\ history' = << >>
    /\ replaced' = IF worker_pc \in {"none", "done"} THEN replaced ELSE replaced + 1
    /\ UNCHANGED << running, start_raised, owner_done, grab_idx, grab_batch,
                    suppressed_keys, starts, cancels, cycled >>
    /\ UNCHANGED << envVars, grabbed, registered, pipe, ui_closed, ui_out, ui_src,
                    callbacks >>

\* start(): self._running = True, and start() returns
StartReturns ==
    /\ UNCHANGED << discVars, emuVars, replaced, reg_idx >>
    /\ owner_pc = "set_running"
    /\ running' = TRUE
    /\ owner_pc' = "idle"
    /\ start_raised' = "none"
    /\ owner_done' = "start"
    /\ UNCHANGED << envVars, grabbed, registered, pipe, ui_closed, seenVars,
                    suppressed_keys, thread, grab_idx, grab_batch, starts, cancels,
                    cycled, workerVars >>

\* cancel(): os.write(self._thread_write_pipe, b"a")
CancelWrite(budget) ==
    /\ UNCHANGED << discVars, emuVars, replaced, reg_idx >>
    /\ owner_pc = "idle" /\ cancels < budget
    /\ pipe' = pipe + 1
    /\ owner_pc' = "join"
    /\ cancels' = cancels + 1
    /\ UNCHANGED << envVars, grabbed, registered, ui_closed, seenVars,
                    suppressed_keys, thread, running, grab_idx, grab_batch,
                    start_raised, owner_done, cycled, starts, workerVars >>

\* cancel() without the wait of join()
JoinedNoWait ==
    TRUE

\* self._thread.join() returns at once for a thread that has finished
Joined ==
    worker_pc = "done"

\* cancel(): self._thread.join() when there is a thread, self._thread = None,
\* self._running = False
CancelJoin ==
    /\ UNCHANGED << discVars, emuVars, replaced, reg_idx >>
    /\ owner_pc = "join"
    /\ thread = "None" \/ Joined
    /\ thread' = "None"
    /\ running' = FALSE
    /\ owner_pc' = "idle"
    /\ owner_done' = "cancel"
    /\ cycled' = (cycled \/ thread = "Thread")
    /\ UNCHANGED << envVars, grabbed, registered, pipe, ui_closed, seenVars,
                    suppressed_keys, grab_idx, grab_batch, start_raised, starts,
                    cancels, workerVars >>

\* ------------------------------------------------------- the _run thread
\* control leaves the try block of _run, by `return` or by an exception, for
\* its finally block
EnterFinally(how) ==
    /\ worker_pc' = "cleanup"
    /\ left_by' = how
    /\ cleanup_idx' = 1
    /\ ready' = {}
    /\ batch' = << >>
    /\ src_dev' = 0
    /\ src_idx' = 0

\* what self._selector.select() reports: the pipe when it holds data, and each
\* registered device with buffered events or a hang-up
ReadyKeys ==
    (IF pipe > 0 THEN {PipeKey} ELSE {})
        \cup { d \in Devices : registered[d] /\ (queue[d] # << >> \/ ~present[d]) }

\* `for key, events in self._selector.select()`: the blocking readiness wait
WorkerSelect ==
    /\ UNCHANGED << discVars, emuVars, replaced, reg_idx >>
    /\ worker_pc = "select"
    /\ ReadyKeys # {}
    /\ ready' = ReadyKeys
    /\ worker_pc' = "dispatch"
    /\ UNCHANGED << envVars, grabbed, registered, pipe, ui_closed, seenVars,
                    ownerVars, batch, src_dev, src_idx, down_modifier_keys,
                    keys_pressed_with_modifier, cleanup_idx, ungrab_tried, left_by >>

\* `if key.fd == self._thread_read_pipe`: os.read(key.fd, 999) and return
WorkerReadPipe ==
    /\ UNCHANGED << discVars, emuVars, replaced, reg_idx >>
    /\ worker_pc = "dispatch" /\ PipeKey \in ready
    /\ pipe' = 0
    /\ EnterFinally("return")
    /\ UNCHANGED << envVars, grabbed, registered, ui_closed, seenVars, ownerVars,
                    down_modifier_keys, keys_pressed_with_modifier, ungrab_tried >>

\* `for event in device.read()`: read() takes every buffered event of the
\* device; it raises OSError on an unplugged device and BlockingIOError when
\* nothing is buffered.
WorkerReadDevice(d) ==
    /\ UNCHANGED << discVars, emuVars, replaced, reg_idx >>
    /\ worker_pc = "dispatch" /\ d \in ready /\ d # PipeKey
    /\ IF present[d] /\ queue[d] # << >>
       THEN /\ batch' = queue[d]
            /\ src_dev' = d
            /\ src_idx' = Len(stream[d]) - Len(queue[d]) + 1
            /\ queue' = [queue EXCEPT ![d] = << >>]
            /\ ready' = ready \ {d}
            /\ worker_pc' = "events"
            /\ UNCHANGED << cleanup_idx, left_by >>
       ELSE /\ EnterFinally("raise")
            /\ UNCHANGED queue
    /\ UNCHANGED << present, held, produced, stream, grabbed, registered, pipe,
                    ui_closed, seenVars, ownerVars, down_modifier_keys,
                    keys_pressed_with_modifier, ungrab_tried >>

\* where the loop stands once `rest` is what is left of device.read() and
\* `keys` what is left of the list select() returned: in the event loop, at the
\* next key of the list, or back at `while True`
AfterEvent(rest, keys) ==
    IF rest # << >> THEN "events"
    ELSE IF keys # {} THEN "dispatch"
    ELSE "select"

\* the callbacks of a loop that tests `event.value != key_up` instead of
\* `== key_down`: an autorepeat is reported as a key_down
CallbackOfHoldAsDown(event) ==
    IF event.value = key_up THEN << <<"key_up", KEYCODES_TO_SUPRESS[event.code]>> >>
    ELSE << <<"key_down", KEYCODES_TO_SUPRESS[event.code]>> >>

\* the key_down / key_up call the loop makes for an EV_KEY event, << >> for
\* an autorepeat
CallbackOf(event) ==
    IF event.value = key_down THEN << <<"key_down", KEYCODES_TO_SUPRESS[event.code]>> >>
    ELSE IF event.value = key_up THEN << <<"key_up", KEYCODES_TO_SUPRESS[event.code]>> >>
    ELSE << >>

\* the iteration over `event` ends with `outcome` and the loop goes on
IterationEnds(event, outcome) ==
    /\ last' = Iteration(event, outcome)
    /\ history' = Append(history, [event |-> event, outcome |-> outcome])
    /\ batch' = Tail(batch)
    /\ src_dev' = IF Tail(batch) = << >> THEN 0 ELSE src_dev
    /\ src_idx' = IF Tail(batch) = << >> THEN 0 ELSE src_idx + 1
    /\ worker_pc' = AfterEvent(Tail(batch), ready)
    /\ UNCHANGED << ready, cleanup_idx, left_by >>

\* the iteration over `event` raises the exception `outcome`
IterationRaises(event, outcome) ==
    /\ last' = Iteration(event, outcome)
    /\ history' = Append(history, [event |-> event, outcome |-> outcome])
    /\ EnterFinally("raise")

\* a pass-through written the way _press_key writes, self._ui.write(e.EV_KEY,
\* event.code, event.value): every event goes out as a key event
WriteEventAsKey(event) ==
    IF ui_closed
    THEN /\ IterationRaises(event, "write_event")
         /\ UNCHANGED << ui_out, ui_src >>
    ELSE /\ ui_out' = Append(ui_out, [event EXCEPT !.type = EV_KEY])
         /\ ui_src' = Append(ui_src, << src_dev, src_idx >>)
         /\ IterationEnds(event, "written")

\* self._ui.write_event(event): raises once the uinput device is closed
WriteEvent(event) ==
    IF ui_closed
    THEN /\ IterationRaises(event, "write_event")
         /\ UNCHANGED << ui_out, ui_src >>
    ELSE /\ ui_out' = Append(ui_out, event)
         /\ ui_src' = Append(ui_src, << src_dev, src_idx >>)
         /\ IterationEnds(event, "written")

\* One iteration of the body of `for event in device.read()`, with the
\* consumer's callback returning normally.
WorkerEvent ==
    /\ UNCHANGED << discVars, emuVars, replaced, reg_idx >>
    /\ worker_pc = "events" /\ batch # << >>
    /\ LET event == Head(batch)
       IN  IF event.type = EV_KEY
           THEN IF event.code \notin DOMAIN KEYCODES_TO_SUPRESS
                THEN \* KEYCODES_TO_SUPRESS[event.code] raises KeyError
                     /\ IterationRaises(event, "KeyError")
                     /\ UNCHANGED << ui_out, ui_src, callbacks, down_modifier_keys,
                                     keys_pressed_with_modifier >>
                ELSE LET r == should_suppress(event, down_modifier_keys,
                                              keys_pressed_with_modifier,
                                              suppressed_keys)
                     IN  /\ callbacks' = callbacks \o CallbackOf(event)
                         /\ down_modifier_keys' = r.dm
                         /\ keys_pressed_with_modifier' = r.kpm
                         /\ IF r.suppress
                            THEN /\ IterationEnds(event, "suppressed")
                                 /\ UNCHANGED << ui_out, ui_src >>
                            ELSE WriteEvent(event)
           ELSE /\ WriteEvent(event)
                /\ UNCHANGED << callbacks, down_modifier_keys,
                                keys_pressed_with_modifier >>
    /\ UNCHANGED << envVars, grabbed, registered, pipe, ui_closed, ownerVars,
                    ungrab_tried >>

\* The same iteration when the consumer's key_down / key_up raises: the
\* exception leaves the loop before _should_suppress is called.
WorkerCallbackRaises ==
    /\ UNCHANGED << discVars, emuVars, replaced, reg_idx >>
    /\ worker_pc = "events" /\ batch # << >>
    /\ LET event == Head(batch)
       IN  /\ event.type = EV_KEY
           /\ event.code \in DOMAIN KEYCODES_TO_SUPRESS
           /\ CallbackOf(event) # << >>
           /\ callbacks' = callbacks \o CallbackOf(event)
           /\ IterationRaises(event, "callback")
    /\ UNCHANGED << envVars, grabbed, registered, pipe, ui_closed, ui_out, ui_src,
                    ownerVars, down_modifier_keys, keys_pressed_with_modifier,
                    ungrab_tried >>

\* the finally block without its try / except: the exception of a failed
\* ungrab() leaves the for loop and ends the thread
WorkerUngrabNoExcept ==
    /\ UNCHANGED << discVars, emuVars, replaced, reg_idx >>
    /\ worker_pc = "cleanup" /\ cleanup_idx <= NumDevices
    /\ LET d == cleanup_idx
       IN  /\ ungrab_tried' = ungrab_tried \cup {d}
           /\ IF present[d] /\ grabbed[d]
              THEN /\ grabbed' = [grabbed EXCEPT ![d] = FALSE]
                   /\ worker_pc' = "unregister"
                   /\ UNCHANGED cleanup_idx
              ELSE /\ worker_pc' = "done"
                   /\ UNCHANGED << grabbed, cleanup_idx >>
    /\ UNCHANGED << envVars, registered, pipe, ui_closed, seenVars, ownerVars, ready,
                    batch, src_dev, src_idx, down_modifier_keys,
                    keys_pressed_with_modifier, left_by >>

\* finally: device.ungrab() of one iteration of `for device in self._devices`:
\* ungrab() raises on a device that is unplugged or not grabbed, which skips
\* unregister(); the bare except swallows the exception and the for loop goes
\* on with the next device.
WorkerUngrab ==
    /\ UNCHANGED << discVars, emuVars, replaced, reg_idx >>
    /\ worker_pc = "cleanup" /\ cleanup_idx <= NumDevices
    /\ LET d == cleanup_idx
       IN  /\ ungrab_tried' = ungrab_tried \cup {d}
           /\ IF present[d] /\ grabbed[d]
              THEN /\ grabbed' = [grabbed EXCEPT ![d] = FALSE]
                   /\ worker_pc' = "unregister"
                   /\ UNCHANGED cleanup_idx
              ELSE /\ cleanup_idx' = cleanup_idx + 1
                   /\ UNCHANGED << grabbed, worker_pc >>
    /\ UNCHANGED << envVars, registered, pipe, ui_closed, seenVars, ownerVars, ready,
                    batch, src_dev, src_idx, down_modifier_keys,
                    keys_pressed_with_modifier, left_by >>

\* finally: self._selector.unregister(device) after an ungrab() that returned,
\* and the for loop goes on with the next device
WorkerUnregister ==
    /\ UNCHANGED << discVars, emuVars, replaced, reg_idx >>
    /\ worker_pc = "unregister"
    /\ registered' = [registered EXCEPT ![cleanup_idx] = FALSE]
    /\ cleanup_idx' = cleanup_idx + 1
    /\ worker_pc' = "cleanup"
    /\ UNCHANGED << envVars, grabbed, pipe, ui_closed, seenVars, ownerVars, ready,
                    batch, src_dev, src_idx, down_modifier_keys,
                    keys_pressed_with_modifier, ungrab_tried, left_by >>

\* finally: self._ui.close(), after which the thread ends
WorkerClose ==
    /\ UNCHANGED << discVars, emuVars, replaced, reg_idx >>
    /\ worker_pc = "cleanup" /\ cleanup_idx > NumDevices
    /\ ui_closed' = TRUE
    /\ worker_pc' = "done"
    /\ UNCHANGED << envVars, grabbed, registered, pipe, seenVars, ownerVars, ready,
                    batch, src_dev, src_idx, down_modifier_keys,
                    keys_pressed_with_modifier, cleanup_idx, ungrab_tried, left_by >>

\* finally: self._ui.close() of a thread that a later start() has replaced in
\* self._thread, after which that thread ends
ReplacedWorkerClose ==
    /\ UNCHANGED << discVars, emuVars, reg_idx >>
    /\ replaced > 0
    /\ ui_closed' = TRUE
    /\ replaced' = replaced - 1
    /\ UNCHANGED << envVars, grabbed, registered, pipe, seenVars, ownerVars,
                    workerVars >>

\* start() creates a thread only when every device could be grabbed, and a
\* device is grabbed until the finally block of the thread that runs has
\* ungrabbed it: a thread that is alive when the next one is created has called
\* ungrab() on every device and has only self._ui.close() left.
ReplacedThreadAtClose ==
    (owner_pc = "register" /\ reg_idx > NumDevices)
        => \/ worker_pc \in {"none", "done"}
           \/ worker_pc = "cleanup" /\ cleanup_idx > NumDevices

\* ------------------------------------------------------- device discovery
\* number of input devices list_devices() reports (DiscoverySpec)
MaxCandidates == 2

\* device.capabilities() of the kinds of input device the model draws from: a
\* keyboard, a mouse, a mouse that also reports keyboard keys, a touchpad, a
\* power button, and a device with no EV_KEY capability
CapabilityKinds ==
    { (EV_KEY :> {KEY_ESC, KEY_SPACE, KEY_ENTER, KEY_LEFTSHIFT, KEY_A}),
      (EV_KEY :> {BTN_LEFT}) @@ (EV_REL :> {REL_X}),
      (EV_KEY :> {BTN_LEFT, KEY_SPACE, KEY_ENTER}) @@ (EV_REL :> {REL_X}),
      (EV_KEY :> {BTN_TOUCH, KEY_LEFTSHIFT}) @@ (EV_ABS :> {ABS_X}),
      (EV_KEY :> {KEY_POWER}),
      (EV_REL :> {REL_X}) }

\* an InputDevice as _filter_devices sees it
InputDeviceOf(name, phys, capabilities) ==
    [name |-> name, phys |-> phys, capabilities |-> capabilities]

\* the input devices a system can have; a device made by evdev's UInput with
\* its default arguments has the name and the phys "py-evdev-uinput"
InputDevices ==
    { InputDeviceOf(name, phys, caps) :
        name \in {"py-evdev-uinput", "AT Translated Set 2 keyboard"},
        phys \in {"py-evdev-uinput", "isa0060/serio0/input0"},
        caps \in CapabilityKinds }

\* an ordinary keyboard
PlainKeyboard ==
    InputDeviceOf("AT Translated Set 2 keyboard", "isa0060/serio0/input0",
                  (EV_KEY :> {KEY_ESC, KEY_SPACE, KEY_ENTER, KEY_LEFTSHIFT, KEY_A}))

\* what list_devices() can report
CandidateLists ==
    UNION { [1..n -> InputDevices] : n \in 0..MaxCandidates }

\* _filter_devices without the is_uinput test
filter_devices_keys_only(device) ==
    LET keys == IF EV_KEY \in DOMAIN device.capabilities
                THEN device.capabilities[EV_KEY] ELSE {}
        keyboard_keys_present ==
            \E key \in {KEY_ESC, KEY_SPACE, KEY_ENTER, KEY_LEFTSHIFT} : key \in keys
    IN  keyboard_keys_present

\* _filter_devices(device)
filter_devices(device) ==
    LET is_uinput == \/ device.name = "py-evdev-uinput"
                     \/ device.phys = "py-evdev-uinput"
        keys == IF EV_KEY \in DOMAIN device.capabilities
                THEN device.capabilities[EV_KEY] ELSE {}
        keyboard_keys_present ==
            \E key \in {KEY_ESC, KEY_SPACE, KEY_ENTER, KEY_LEFTSHIFT} : key \in keys
    IN  ~is_uinput /\ keyboard_keys_present

\* _get_devices(): the devices of list_devices() that pass the filter, in order
get_devices(input_devices) ==
    SelectSeq(input_devices, filter_devices)

\* KeyboardCapture.__init__ up to the call of self._get_devices()
GetDevices ==
    /\ ~listed
    /\ accepted' = get_devices(candidates)
    /\ listed' = TRUE
    /\ UNCHANGED << candidates, captureVars, emuVars >>

\* ------------------------------------------------------- the layout tables
\* the dict item `key: KeyCodeInfo(keycode, modifiers)`
Entry(key, keycode, modifiers) ==
    [key |-> key, keycode |-> keycode, modifiers |-> modifiers]

\* the one-character string "\b" (backspace), which has no TLA+ escape
BS == "\\b"
\* the one-character string of the grave accent (code point 0x60), which a
\* TLA+ string cannot hold
BQ == "\\x60"

\* the entries of BASE_LAYOUT (lines 22-149): the items whose key is a printable
\* ASCII character, "\n", "\b" or the name of a modifier or editing key, in order
BASE_LAYOUT ==
    << Entry("alt_l", KEY_LEFTALT, << >>),
       Entry("alt_r", KEY_RIGHTALT, << >>),
       Entry("alt", KEY_LEFTALT, << >>),
       Entry("ctrl_l", KEY_LEFTCTRL, << >>),
       Entry("ctrl_r", KEY_RIGHTCTRL, << >>),
       Entry("ctrl", KEY_LEFTCTRL, << >>),
       Entry("control_l", KEY_LEFTCTRL, << >>),
       Entry("control_r", KEY_RIGHTCTRL, << >>),
       Entry("control", KEY_LEFTCTRL, << >>),
       Entry("shift_l", KEY_LEFTSHIFT, << >>),
       Entry("shift_r", KEY_RIGHTSHIFT, << >>),
       Entry("shift", KEY_LEFTSHIFT, << >>),
       Entry("super_l", KEY_LEFTMETA, << >>),
       Entry("super_r", KEY_RIGHTMETA, << >>),
       Entry("super", KEY_LEFTMETA, << >>),
       Entry(BQ, KEY_GRAVE, << >>),
       Entry("~", KEY_GRAVE, <<KEY_LEFTSHIFT>>),
       Entry("1", KEY_1, << >>),
       Entry("!", KEY_1, <<KEY_LEFTSHIFT>>),
       Entry("2", KEY_2, << >>),
       Entry("@", KEY_2, <<KEY_LEFTSHIFT>>),
       Entry("3", KEY_3, << >>),
       Entry("#", KEY_3, <<KEY_LEFTSHIFT>>),
       Entry("4", KEY_4, << >>),
       Entry("$", KEY_4, <<KEY_LEFTSHIFT>>),
       Entry("5", KEY_5, << >>),
       Entry("%", KEY_5, <<KEY_LEFTSHIFT>>),
       Entry("6", KEY_6, << >>),
       Entry("^", KEY_6, <<KEY_LEFTSHIFT>>),
       Entry("7", KEY_7, << >>),
       Entry("&", KEY_7, <<KEY_LEFTSHIFT>>),
       Entry("8", KEY_8, << >>),
       Entry("*", KEY_8, <<KEY_LEFTSHIFT>>),
       Entry("9", KEY_9, << >>),
       Entry("(", KEY_9, <<KEY_LEFTSHIFT>>),
       Entry("0", KEY_0, << >>),
       Entry(")", KEY_0, <<KEY_LEFTSHIFT>>),
       Entry("-", KEY_MINUS, << >>),
       Entry("_", KEY_MINUS, <<KEY_LEFTSHIFT>>),
       Entry("=", KEY_EQUAL, << >>),
       Entry("+", KEY_EQUAL, <<KEY_LEFTSHIFT>>),
       Entry(BS, KEY_BACKSPACE, << >>),
       Entry(" ", KEY_SPACE, << >>),
       Entry("\n", KEY_ENTER, << >>),
       Entry("return", KEY_ENTER, << >>),
       Entry("tab", KEY_TAB, << >>),
       Entry("backspace", KEY_BACKSPACE, << >>),
       Entry("escape", KEY_ESC, << >>),
       Entry("space", KEY_SPACE, << >>) >>

\* the entries of LAYOUTS["qwerty"] after **BASE_LAYOUT (lines 161-234): the items whose key is a printable
\* ASCII character, "\n", "\b" or the name of a modifier or editing key, in order
QWERTY ==
    << Entry("q", KEY_Q, << >>),
       Entry("Q", KEY_Q, <<KEY_LEFTSHIFT>>),
       Entry("w", KEY_W, << >>),
       Entry("W", KEY_W, <<KEY_LEFTSHIFT>>),
       Entry("e", KEY_E, << >>),
       Entry("E", KEY_E, <<KEY_LEFTSHIFT>>),
       Entry("r", KEY_R, << >>),
       Entry("R", KEY_R, <<KEY_LEFTSHIFT>>),
       Entry("t", KEY_T, << >>),
       Entry("T", KEY_T, <<KEY_LEFTSHIFT>>),
       Entry("y", KEY_Y, << >>),
       Entry("Y", KEY_Y, <<KEY_LEFTSHIFT>>),
       Entry("u", KEY_U, << >>),
       Entry("U", KEY_U, <<KEY_LEFTSHIFT>>),
       Entry("i", KEY_I, << >>),
       Entry("I", KEY_I, <<KEY_LEFTSHIFT>>),
       Entry("o", KEY_O, << >>),
       Entry("O", KEY_O, <<KEY_LEFTSHIFT>>),
       Entry("p", KEY_P, << >>),
       Entry("P", KEY_P, <<KEY_LEFTSHIFT>>),
       Entry("[", KEY_LEFTBRACE, << >>),
       Entry("{", KEY_LEFTBRACE, <<KEY_LEFTSHIFT>>),
       Entry("]", KEY_RIGHTBRACE, << >>),
       Entry("}", KEY_RIGHTBRACE, <<KEY_LEFTSHIFT>>),
       Entry("\\", KEY_BACKSLASH, << >>),
       Entry("|", KEY_BACKSLASH, <<KEY_LEFTSHIFT>>),
       Entry("a", KEY_A, << >>),
       Entry("A", KEY_A, <<KEY_LEFTSHIFT>>),
       Entry("s", KEY_S, << >>),
       Entry("S", KEY_S, <<KEY_LEFTSHIFT>>),
       Entry("d", KEY_D, << >>),
       Entry("D", KEY_D, <<KEY_LEFTSHIFT>>),
       Entry("f", KEY_F, << >>),
       Entry("F", KEY_F, <<KEY_LEFTSHIFT>>),
       Entry("g", KEY_G, << >>),
       Entry("G", KEY_G, <<KEY_LEFTSHIFT>>),
       Entry("h", KEY_H, << >>),
       Entry("H", KEY_H, <<KEY_LEFTSHIFT>>),
       Entry("j", KEY_J, << >>),
       Entry("J", KEY_J, <<KEY_LEFTSHIFT>>),
       Entry("k", KEY_K, << >>),
       Entry("K", KEY_K, <<KEY_LEFTSHIFT>>),
       Entry("l", KEY_L, << >>),
       Entry("L", KEY_L, <<KEY_LEFTSHIFT>>),
       Entry(";", KEY_SEMICOLON, << >>),
       Entry(":", KEY_SEMICOLON, <<KEY_LEFTSHIFT>>),
       Entry("'", KEY_APOSTROPHE, << >>),
       Entry("\"", KEY_APOSTROPHE, <<KEY_LEFTSHIFT>>),
       Entry("z", KEY_Z, << >>),
       Entry("Z", KEY_Z, <<KEY_LEFTSHIFT>>),
       Entry("x", KEY_X, << >>),
       Entry("X", KEY_X, <<KEY_LEFTSHIFT>>),
       Entry("c", KEY_C, << >>),
       Entry("C", KEY_C, <<KEY_LEFTSHIFT>>),
       Entry("v", KEY_V, << >>),
       Entry("V", KEY_V, <<KEY_LEFTSHIFT>>),
       Entry("b", KEY_B, << >>),
       Entry("B", KEY_B, <<KEY_LEFTSHIFT>>),
       Entry("n", KEY_N, << >>),
       Entry("N", KEY_N, <<KEY_LEFTSHIFT>>),
       Entry("m", KEY_M, << >>),
       Entry("M", KEY_M, <<KEY_LEFTSHIFT>>),
       Entry(",", KEY_COMMA, << >>),
       Entry("<", KEY_COMMA, <<KEY_LEFTSHIFT>>),
       Entry(".", KEY_DOT, << >>),
       Entry(">", KEY_DOT, <<KEY_LEFTSHIFT>>),
       Entry("/", KEY_SLASH, << >>),
       Entry("?", KEY_SLASH, <<KEY_LEFTSHIFT>>) >>

\* the entries of LAYOUTS["qwertz"] after **BASE_LAYOUT (lines 235-334): the items whose key is a printable
\* ASCII character, "\n", "\b" or the name of a modifier or editing key, in order
QWERTZ ==
    << Entry("1", KEY_1, << >>),
       Entry("!", KEY_1, <<KEY_LEFTSHIFT>>),
       Entry("2", KEY_2, << >>),
       Entry("\"", KEY_2, <<KEY_LEFTSHIFT>>),
       Entry("3", KEY_3, << >>),
       Entry("4", KEY_4, << >>),
       Entry("$", KEY_4, <<KEY_LEFTSHIFT>>),
       Entry("5", KEY_5, << >>),
       Entry("%", KEY_5, <<KEY_LEFTSHIFT>>),
       Entry("6", KEY_6, << >>),
       Entry("&", KEY_6, <<KEY_LEFTSHIFT>>),
       Entry("7", KEY_7, << >>),
       Entry("/", KEY_7, <<KEY_LEFTSHIFT>>),
       Entry("8", KEY_8, << >>),
       Entry("(", KEY_8, <<KEY_LEFTSHIFT>>),
       Entry("9", KEY_9, << >>),
       Entry(")", KEY_9, <<KEY_LEFTSHIFT>>),
       Entry("0", KEY_0, << >>),
       Entry("=", KEY_0, <<KEY_LEFTSHIFT>>),
       Entry("?", KEY_MINUS, <<KEY_LEFTSHIFT>>),
       Entry(BQ, KEY_EQUAL, <<KEY_LEFTSHIFT>>),
       Entry(BS, KEY_BACKSPACE, << >>),
       Entry("q", KEY_Q, << >>),
       Entry("Q", KEY_Q, <<KEY_LEFTSHIFT>>),
       Entry("w", KEY_W, << >>),
       Entry("W", KEY_W, <<KEY_LEFTSHIFT>>),
       Entry("e", KEY_E, << >>),
       Entry("E", KEY_E, <<KEY_LEFTSHIFT>>),
       Entry("r", KEY_R, << >>),
       Entry("R", KEY_R, <<KEY_LEFTSHIFT>>),
       Entry("t", KEY_T, << >>),
       Entry("T", KEY_T, <<KEY_LEFTSHIFT>>),
       Entry("z", KEY_Y, << >>),
       Entry("Z", KEY_Y, <<KEY_LEFTSHIFT>>),
       Entry("u", KEY_U, << >>),
       Entry("U", KEY_U, <<KEY_LEFTSHIFT>>),
       Entry("i", KEY_I, << >>),
       Entry("I", KEY_I, <<KEY_LEFTSHIFT>>),
       Entry("o", KEY_O, << >>),
       Entry("O", KEY_O, <<KEY_LEFTSHIFT>>),
       Entry("p", KEY_P, << >>),
       Entry("P", KEY_P, <<KEY_LEFTSHIFT>>),
       Entry("+", KEY_RIGHTBRACE, << >>),
       Entry("*", KEY_RIGHTBRACE, <<KEY_LEFTSHIFT>>),
       Entry("#", KEY_BACKSLASH, << >>),
       Entry("'", KEY_BACKSLASH, <<KEY_LEFTSHIFT>>),
       Entry("a", KEY_A, << >>),
       Entry("A", KEY_A, <<KEY_LEFTSHIFT>>),
       Entry("s", KEY_S, << >>),
       Entry("S", KEY_S, <<KEY_LEFTSHIFT>>),
       Entry("d", KEY_D, << >>),
       Entry("D", KEY_D, <<KEY_LEFTSHIFT>>),
       Entry("f", KEY_F, << >>),
       Entry("F", KEY_F, <<KEY_LEFTSHIFT>>),
       Entry("g", KEY_G, << >>),
       Entry("G", KEY_G, <<KEY_LEFTSHIFT>>),
       Entry("h", KEY_H, << >>),
       Entry("H", KEY_H, <<KEY_LEFTSHIFT>>),
       Entry("j", KEY_J, << >>),
       Entry("J", KEY_J, <<KEY_LEFTSHIFT>>),
       Entry("k", KEY_K, << >>),
       Entry("K", KEY_K, <<KEY_LEFTSHIFT>>),
       Entry("l", KEY_L, << >>),
       Entry("L", KEY_L, <<KEY_LEFTSHIFT>>),
       Entry("y", KEY_Z, << >>),
       Entry("Y", KEY_Z, <<KEY_LEFTSHIFT>>),
       Entry("x", KEY_X, << >>),
       Entry("X", KEY_X, <<KEY_LEFTSHIFT>>),
       Entry("c", KEY_C, << >>),
       Entry("C", KEY_C, <<KEY_LEFTSHIFT>>),
       Entry("v", KEY_V, << >>),
       Entry("V", KEY_V, <<KEY_LEFTSHIFT>>),
       Entry("b", KEY_B, << >>),
       Entry("B", KEY_B, <<KEY_LEFTSHIFT>>),
       Entry("n", KEY_N, << >>),
       Entry("N", KEY_N, <<KEY_LEFTSHIFT>>),
       Entry("m", KEY_M, << >>),
       Entry("M", KEY_M, <<KEY_LEFTSHIFT>>),
       Entry(",", KEY_COMMA, << >>),
       Entry("<", KEY_COMMA, <<KEY_LEFTSHIFT>>),
       Entry(".", KEY_DOT, << >>),
       Entry(">", KEY_DOT, <<KEY_LEFTSHIFT>>),
       Entry("-", KEY_SLASH, << >>),
       Entry("_", KEY_SLASH, <<KEY_LEFTSHIFT>>) >>

\* the entries of LAYOUTS["colemak"] after **BASE_LAYOUT (lines 335-408): the items whose key is a printable
\* ASCII character, "\n", "\b" or the name of a modifier or editing key, in order
COLEMAK ==
    << Entry("q", KEY_Q, << >>),
       Entry("Q", KEY_Q, <<KEY_LEFTSHIFT>>),
       Entry("w", KEY_W, << >>),
       Entry("W", KEY_W, <<KEY_LEFTSHIFT>>),
       Entry("f", KEY_E, << >>),
       Entry("F", KEY_E, <<KEY_LEFTSHIFT>>),
       Entry("p", KEY_R, << >>),
       Entry("P", KEY_R, <<KEY_LEFTSHIFT>>),
       Entry("g", KEY_T, << >>),
       Entry("G", KEY_T, <<KEY_LEFTSHIFT>>),
       Entry("j", KEY_Y, << >>),
       Entry("J", KEY_Y, <<KEY_LEFTSHIFT>>),
       Entry("l", KEY_U, << >>),
       Entry("L", KEY_U, <<KEY_LEFTSHIFT>>),
       Entry("u", KEY_I, << >>),
       Entry("U", KEY_I, <<KEY_LEFTSHIFT>>),
       Entry("y", KEY_O, << >>),
       Entry("Y", KEY_O, <<KEY_LEFTSHIFT>>),
       Entry(";", KEY_O, << >>),
       Entry(":", KEY_O, <<KEY_LEFTSHIFT>>),
       Entry("[", KEY_LEFTBRACE, << >>),
       Entry("{", KEY_LEFTBRACE, <<KEY_LEFTSHIFT>>),
       Entry("]", KEY_RIGHTBRACE, << >>),
       Entry("}", KEY_RIGHTBRACE, <<KEY_LEFTSHIFT>>),
       Entry("\\", KEY_BACKSLASH, << >>),
       Entry("|", KEY_BACKSLASH, <<KEY_LEFTSHIFT>>),
       Entry("a", KEY_A, << >>),
       Entry("A", KEY_A, <<KEY_LEFTSHIFT>>),
       Entry("r", KEY_S, << >>),
       Entry("R", KEY_S, <<KEY_LEFTSHIFT>>),
       Entry("s", KEY_D, << >>),
       Entry("S", KEY_D, <<KEY_LEFTSHIFT>>),
       Entry("t", KEY_F, << >>),
       Entry("T", KEY_F, <<KEY_LEFTSHIFT>>),
       Entry("d", KEY_G, << >>),
       Entry("D", KEY_G, <<KEY_LEFTSHIFT>>),
       Entry("h", KEY_H, << >>),
       Entry("H", KEY_H, <<KEY_LEFTSHIFT>>),
       Entry("n", KEY_J, << >>),
       Entry("N", KEY_J, <<KEY_LEFTSHIFT>>),
       Entry("e", KEY_K, << >>),
       Entry("E", KEY_K, <<KEY_LEFTSHIFT>>),
       Entry("i", KEY_L, << >>),
       Entry("I", KEY_L, <<KEY_LEFTSHIFT>>),
       Entry("o", KEY_SEMICOLON, << >>),
       Entry("O", KEY_SEMICOLON, <<KEY_LEFTSHIFT>>),
       Entry("'", KEY_APOSTROPHE, << >>),
       Entry("\"", KEY_APOSTROPHE, <<KEY_LEFTSHIFT>>),
       Entry("z", KEY_Z, << >>),
       Entry("Z", KEY_Z, <<KEY_LEFTSHIFT>>),
       Entry("x", KEY_X, << >>),
       Entry("X", KEY_X, <<KEY_LEFTSHIFT>>),
       Entry("c", KEY_C, << >>),
       Entry("C", KEY_C, <<KEY_LEFTSHIFT>>),
       Entry("v", KEY_V, << >>),
       Entry("V", KEY_V, <<KEY_LEFTSHIFT>>),
       Entry("b", KEY_B, << >>),
       Entry("B", KEY_B, <<KEY_LEFTSHIFT>>),
       Entry("k", KEY_N, << >>),
       Entry("K", KEY_N, <<KEY_LEFTSHIFT>>),
       Entry("m", KEY_M, << >>),
       Entry("M", KEY_M, <<KEY_LEFTSHIFT>>),
       Entry(",", KEY_COMMA, << >>),
       Entry("<", KEY_COMMA, <<KEY_LEFTSHIFT>>),
       Entry(".", KEY_DOT, << >>),
       Entry(">", KEY_DOT, <<KEY_LEFTSHIFT>>),
       Entry("/", KEY_SLASH, << >>),
       Entry("?", KEY_SLASH, <<KEY_LEFTSHIFT>>) >>

\* the entries of LAYOUTS["colemak-dh"] after **BASE_LAYOUT (lines 409-482): the items whose key is a printable
\* ASCII character, "\n", "\b" or the name of a modifier or editing key, in order
COLEMAK_DH ==
    << Entry("q", KEY_Q, << >>),
       Entry("Q", KEY_Q, <<KEY_LEFTSHIFT>>),
       Entry("w", KEY_W, << >>),
       Entry("W", KEY_W, <<KEY_LEFTSHIFT>>),
       Entry("f", KEY_E, << >>),
       Entry("F", KEY_E, <<KEY_LEFTSHIFT>>),
       Entry("p", KEY_R, << >>),
       Entry("P", KEY_R, <<KEY_LEFTSHIFT>>),
       Entry("b", KEY_T, << >>),
       Entry("B", KEY_T, <<KEY_LEFTSHIFT>>),
       Entry("j", KEY_Y, << >>),
       Entry("J", KEY_Y, <<KEY_LEFTSHIFT>>),
       Entry("l", KEY_U, << >>),
       Entry("L", KEY_U, <<KEY_LEFTSHIFT>>),
       Entry("u", KEY_I, << >>),
       Entry("U", KEY_I, <<KEY_LEFTSHIFT>>),
       Entry("y", KEY_O, << >>),
       Entry("Y", KEY_O, <<KEY_LEFTSHIFT>>),
       Entry(";", KEY_P, << >>),
       Entry(":", KEY_P, <<KEY_LEFTSHIFT>>),
       Entry("[", KEY_LEFTBRACE, << >>),
       Entry("{", KEY_LEFTBRACE, <<KEY_LEFTSHIFT>>),
       Entry("]", KEY_RIGHTBRACE, << >>),
       Entry("}", KEY_RIGHTBRACE, <<KEY_LEFTSHIFT>>),
       Entry("\\", KEY_BACKSLASH, << >>),
       Entry("|", KEY_BACKSLASH, <<KEY_LEFTSHIFT>>),
       Entry("a", KEY_A, << >>),
       Entry("A", KEY_A, <<KEY_LEFTSHIFT>>),
       Entry("r", KEY_S, << >>),
       Entry("R", KEY_S, <<KEY_LEFTSHIFT>>),
       Entry("s", KEY_D, << >>),
       Entry("S", KEY_D, <<KEY_LEFTSHIFT>>),
       Entry("t", KEY_F, << >>),
       Entry("T", KEY_F, <<KEY_LEFTSHIFT>>),
       Entry("g", KEY_G, << >>),
       Entry("G", KEY_G, <<KEY_LEFTSHIFT>>),
       Entry("m", KEY_H, << >>),
       Entry("M", KEY_H, <<KEY_LEFTSHIFT>>),
       Entry("n", KEY_J, << >>),
       Entry("N", KEY_J, <<KEY_LEFTSHIFT>>),
       Entry("e", KEY_K, << >>),
       Entry("E", KEY_K, <<KEY_LEFTSHIFT>>),
       Entry("i", KEY_L, << >>),
       Entry("I", KEY_L, <<KEY_LEFTSHIFT>>),
       Entry("o", KEY_SEMICOLON, << >>),
       Entry("O", KEY_SEMICOLON, <<KEY_LEFTSHIFT>>),
       Entry("'", KEY_APOSTROPHE, << >>),
       Entry("\"", KEY_APOSTROPHE, <<KEY_LEFTSHIFT>>),
       Entry("x", KEY_Z, << >>),
       Entry("X", KEY_Z, <<KEY_LEFTSHIFT>>),
       Entry("c", KEY_X, << >>),
       Entry("C", KEY_X, <<KEY_LEFTSHIFT>>),
       Entry("d", KEY_C, << >>),
       Entry("D", KEY_C, <<KEY_LEFTSHIFT>>),
       Entry("v", KEY_V, << >>),
       Entry("V", KEY_V, <<KEY_LEFTSHIFT>>),
       Entry("z", KEY_B, << >>),
       Entry("Z", KEY_B, <<KEY_LEFTSHIFT>>),
       Entry("k", KEY_N, << >>),
       Entry("K", KEY_N, <<KEY_LEFTSHIFT>>),
       Entry("h", KEY_M, << >>),
       Entry("H", KEY_M, <<KEY_LEFTSHIFT>>),
       Entry(",", KEY_COMMA, << >>),
       Entry("<", KEY_COMMA, <<KEY_LEFTSHIFT>>),
       Entry(".", KEY_DOT, << >>),
       Entry(">", KEY_DOT, <<KEY_LEFTSHIFT>>),
       Entry("/", KEY_SLASH, << >>),
       Entry("?", KEY_SLASH, <<KEY_LEFTSHIFT>>) >>
\* a dict display evaluated left to right: a later item replaces an earlier
\* item with the same key
DictOf(entries) ==
    [k \in { entries[i].key : i \in 1..Len(entries) } |->
        LET i == CHOOSE i \in 1..Len(entries) :
                    /\ entries[i].key = k
                    /\ \A j \in (i + 1)..Len(entries) : entries[j].key # k
        IN  [keycode |-> entries[i].keycode, modifiers |-> entries[i].modifiers]]

DEFAULT_LAYOUT == "qwerty"

\* LAYOUTS: each layout is {**BASE_LAYOUT, ...its own items}
LAYOUTS ==
    [name \in {"qwerty", "qwertz", "colemak", "colemak-dh"} |->
        DictOf(BASE_LAYOUT \o (CASE name = "qwerty" -> QWERTY
                                 [] name = "qwertz" -> QWERTZ
                                 [] name = "colemak" -> COLEMAK
                                 [] name = "colemak-dh" -> COLEMAK_DH))]

\* the characters of code points 32..126 in code point order
AsciiChars ==
    << " ", "!", "\"", "#", "$", "%", "&", "'", "(", ")", "*", "+", ",", "-", ".", "/",
       "0", "1", "2", "3", "4", "5", "6", "7", "8", "9", ":", ";", "<", "=", ">", "?",
       "@", "A", "B", "C", "D", "E", "F", "G", "H", "I", "J", "K", "L", "M", "N", "O",
       "P", "Q", "R", "S", "T", "U", "V", "W", "X", "Y", "Z", "[", "\\", "]", "^", "_",
       BQ, "a", "b", "c", "d", "e", "f", "g", "h", "i", "j", "k", "l", "m", "n", "o",
       "p", "q", "r", "s", "t", "u", "v", "w", "x", "y", "z", "{", "|", "}", "~" >>

\* string.printable[:-5]: the digits, letters, punctuation and the space
Printable == { AsciiChars[i] : i \in 1..Len(AsciiChars) }

\* ord(char) for the characters of the model
Ord(char) ==
    IF char = "\t" THEN 9
    ELSE IF char = "\n" THEN 10
    ELSE IF char = "\r" THEN 13
    ELSE 31 + (CHOOSE i \in 1..Len(AsciiChars) : AsciiChars[i] = char)

\* hex(n)[2:]: the lowercase hexadecimal digits of n, most significant first,
\* without padding
RECURSIVE HexOf(_)
HexOf(n) ==
    LET digits == << "0", "1", "2", "3", "4", "5", "6", "7",
                     "8", "9", "a", "b", "c", "d", "e", "f" >>
    IN  IF n < 16 THEN << digits[n + 1] >>
        ELSE HexOf(n \div 16) \o << digits[(n % 16) + 1] >>

\* ------------------------------------------------- the KeyboardEmulation object
\* length of the strings passed to send_string
MaxTextLen == 2
\* largest count passed to send_backspaces
MaxBackspaces == 2
\* number of calls made on the KeyboardEmulation object
MaxEmuCalls == 3
\* a line of the log
Warning(kind, what) == [warning |-> kind, what |-> what]
IsWarning(x) == "warning" \in DOMAIN x
IsWrite(x) == "type" \in DOMAIN x

\* parse_key_combo("ctrl_l(shift(u))"): the keys are pressed in the order they
\* are written and released innermost first
ParsedImeTrigger ==
    << <<"ctrl_l", TRUE>>, <<"shift", TRUE>>, <<"u", TRUE>>,
       <<"u", FALSE>>, <<"shift", FALSE>>, <<"ctrl_l", FALSE>> >>

\* _get_key(key): (keycode, modifiers) of the key, (None, []) when the table
\* has no such key; `found` stands for `base is not None`
get_key(table, key) ==
    IF key \in DOMAIN table
    THEN [found |-> TRUE, keycode |-> table[key].keycode,
          modifiers |-> table[key].modifiers]
    ELSE [found |-> FALSE, keycode |-> 0, modifiers |-> << >>]

\* _press_key without self._ui.syn()
press_key_no_syn(key, state) ==
    << KeyEv(key, IF state THEN 1 ELSE 0) >>

\* _press_key(key, state): self._ui.write(EV_KEY, key, 1 if state else 0) and
\* self._ui.syn()
press_key(key, state) ==
    << KeyEv(key, IF state THEN 1 ELSE 0), SynEv >>

\* the loop over the modifiers with the state of the press loop written into
\* it: `for mod in mods: self._press_key(mod, True)` also where the modifiers
\* are to be released
RECURSIVE press_each_down(_, _)
press_each_down(mods, state) ==
    IF mods = << >> THEN << >>
    ELSE press_key(Head(mods), TRUE) \o press_each_down(Tail(mods), state)

\* `for mod in mods: self._press_key(mod, state)`
RECURSIVE press_each(_, _)
press_each(mods, state) ==
    IF mods = << >> THEN << >>
    ELSE press_key(Head(mods), state) \o press_each(Tail(mods), state)

\* send_key_combination leaving its loop at the first key that does not resolve
RECURSIVE send_key_combination_abort(_, _)
send_key_combination_abort(table, key_events) ==
    IF key_events = << >> THEN << >>
    ELSE LET key == Head(key_events)[1]
             pressed == Head(key_events)[2]
             r == get_key(table, key)
         IN  IF r.found
             THEN press_key(r.keycode, pressed)
                    \o send_key_combination_abort(table, Tail(key_events))
             ELSE << Warning("key", key) >>

\* send_key_combination(combo), from the pairs parse_key_combo(combo) returned:
\* what it writes and logs, in order
RECURSIVE send_key_combination(_, _)
send_key_combination(table, key_events) ==
    IF key_events = << >> THEN << >>
    ELSE LET key == Head(key_events)[1]
             pressed == Head(key_events)[2]
             r == get_key(table, key)
         IN  (IF r.found THEN press_key(r.keycode, pressed)
              ELSE << Warning("key", key) >>)
                \o send_key_combination(table, Tail(key_events))

RECURSIVE send_char(_, _)
RECURSIVE send_string(_, _)

\* _send_unicode without the closing _send_char("\n")
send_unicode_no_enter(table, hex) ==
    send_key_combination(table, ParsedImeTrigger) \o send_string(table, hex)

\* _send_unicode(hex)
send_unicode(table, hex) ==
    send_key_combination(table, ParsedImeTrigger)
        \o send_string(table, hex)
        \o send_char(table, "\n")

\* _send_char without the loop that releases the modifiers
send_char_keeps_modifiers(table, char) ==
    LET r == get_key(table, char)
    IN  IF r.found
        THEN press_each(r.modifiers, TRUE)
                \o press_key(r.keycode, TRUE)
                \o press_key(r.keycode, FALSE)
        ELSE send_unicode(table, HexOf(Ord(char)))

\* _send_char(char)
send_char(table, char) ==
    LET r == get_key(table, char)
    IN  IF r.found
        THEN press_each(r.modifiers, TRUE)
                \o press_key(r.keycode, TRUE)
                \o press_key(r.keycode, FALSE)
                \o press_each(r.modifiers, FALSE)
        ELSE send_unicode(table, HexOf(Ord(char)))

\* send_string(string): with_delay hands over the characters in order
send_string(table, string) ==
    IF string = << >> THEN << >>
    ELSE send_char(table, Head(string)) \o send_string(table, Tail(string))

\* send_backspaces(count)
RECURSIVE send_backspaces(_, _)
send_backspaces(table, count) ==
    IF count <= 0 THEN << >>
    ELSE send_char(table, BS) \o send_backspaces(table, count - 1)

\* the characters the strings of the model are made of: two letters, a
\* character qwertz has no entry for, and one no layout has an entry for
EmuChars == { "H", "i", "[", "\t" }
Texts == UNION { [1..n -> EmuChars] : n \in 0..MaxTextLen }
\* the layout names passed to _update_layout, one of them unknown
LayoutNames == { "qwerty", "qwertz", "colemak", "colemak-dh", "dvorak" }
\* what parse_key_combo returns for the combos of the model: "ctrl_l(shift(u))",
\* "a", "!" (an entry with a modifier), "hyper(a)" (hyper is no key of the
\* tables) and one press alone
ParsedCombos ==
    { ParsedImeTrigger,
      << <<"a", TRUE>>, <<"a", FALSE>> >>,
      << <<"!", TRUE>>, <<"!", FALSE>> >>,
      << <<"hyper", TRUE>>, <<"a", TRUE>>, <<"a", FALSE>>, <<"hyper", FALSE>> >>,
      << <<"shift", TRUE>> >> }

\* a call returns after the effects `effects`: the writes go to the uinput
\* device, the warnings to the log
EmuReturns(op, arg, effects) ==
    /\ emu_out' = emu_out \o SelectSeq(effects, IsWrite)
    /\ emu_log' = emu_log \o SelectSeq(effects, IsWarning)
    /\ emu_call' = [op |-> op, arg |-> arg, from |-> Len(emu_out),
                    logged |-> Len(emu_log), raised |-> FALSE]
    /\ emu_calls' = emu_calls + 1

\* a call made before _update_layout raises AttributeError in its first
\* _get_key, before it has written anything
EmuRaises(op, arg) ==
    /\ emu_call' = [op |-> op, arg |-> arg, from |-> Len(emu_out),
                    logged |-> Len(emu_log), raised |-> TRUE]
    /\ emu_calls' = emu_calls + 1
    /\ UNCHANGED << emu_out, emu_log >>

\* _update_layout(layout)
UpdateLayout(layout) ==
    /\ emu_calls < MaxEmuCalls
    /\ has_layout' = TRUE
    /\ KEY_TO_KEYCODEINFO' = IF layout \in DOMAIN LAYOUTS THEN LAYOUTS[layout]
                             ELSE LAYOUTS[DEFAULT_LAYOUT]
    /\ EmuReturns("_update_layout", layout,
                  IF layout \in DOMAIN LAYOUTS THEN << >>
                  ELSE << Warning("layout", layout) >>)
    /\ UNCHANGED << captureVars, discVars >>

\* send_string(string)
SendString(string) ==
    /\ emu_calls < MaxEmuCalls
    /\ IF has_layout \/ string = << >>
       THEN EmuReturns("send_string", string, send_string(KEY_TO_KEYCODEINFO, string))
       ELSE EmuRaises("send_string", string)
    /\ UNCHANGED << has_layout, KEY_TO_KEYCODEINFO, captureVars, discVars >>

\* send_backspaces(count)
SendBackspaces(count) ==
    /\ emu_calls < MaxEmuCalls
    /\ IF has_layout \/ count = 0
       THEN EmuReturns("send_backspaces", count,
                       send_backspaces(KEY_TO_KEYCODEINFO, count))
       ELSE EmuRaises("send_backspaces", count)
    /\ UNCHANGED << has_layout, KEY_TO_KEYCODEINFO, captureVars, discVars >>

\* send_key_combination(combo), key_events being parse_key_combo(combo)
SendKeyCombination(key_events) ==
    /\ emu_calls < MaxEmuCalls
    /\ IF has_layout \/ key_events = << >>
       THEN EmuReturns("send_key_combination", key_events,
                       send_key_combination(KEY_TO_KEYCODEINFO, key_events))
       ELSE EmuRaises("send_key_combination", key_events)
    /\ UNCHANGED << has_layout, KEY_TO_KEYCODEINFO, captureVars, discVars >>

\* ------------------------------------------------------------ initial states
NoCall == [op |-> "none", arg |-> << >>, from |-> 0, logged |-> 0, raised |-> FALSE]

\* KeyboardEmulation.__init__: the uinput device is open, nothing is written;
\* self._KEY_TO_KEYCODEINFO does not exist before _update_layout
EmulationInit ==
    /\ has_layout = FALSE
    /\ KEY_TO_KEYCODEINFO = << >>
    /\ emu_out = << >>
    /\ emu_log = << >>
    /\ emu_call = NoCall
    /\ emu_calls = 0

\* The two objects after construction, on a system whose input devices are
\* NumDevices ordinary keyboards.
Init ==
    /\ CaptureInit
    /\ candidates = [d \in Devices |-> PlainKeyboard]
    /\ accepted = get_devices(candidates)
    /\ listed = TRUE
    /\ EmulationInit

\* KeyboardCapture.__init__ about to call _get_devices() on any system
DiscoveryInit ==
    /\ CaptureInit
    /\ candidates \in CandidateLists
    /\ accepted = << >>
    /\ listed = FALSE
    /\ EmulationInit

\* ------------------------------------------------------------ specification
Keyboards(budget) ==
    \/ \E d \in Devices, c \in ScanCodes : KeyPress(d, c, budget)
    \/ \E d \in Devices, c \in ScanCodes : KeyRelease(d, c, budget)
    \/ \E d \in Devices, c \in ScanCodes : KeyRepeat(d, c, budget)
    \/ \E d \in Devices : SynReport(d, budget)

Owner(maxStarts, maxCancels) ==
    \/ \E keys \in SuppressArgs : Suppress(keys)
    \/ StartCall(maxStarts)
    \/ GrabCheck
    \/ GrabWait
    \/ GrabRead
    \/ GrabActiveKeys
    \/ GrabDevice
    \/ StartRegister
    \/ StartThread
    \/ StartReturns
    \/ CancelWrite(maxCancels)
    \/ CancelJoin

Worker ==
    \/ WorkerSelect
    \/ WorkerReadPipe
    \/ \E d \in Devices : WorkerReadDevice(d)
    \/ WorkerEvent
    \/ WorkerCallbackRaises
    \/ WorkerUngrab
    \/ WorkerUnregister
    \/ WorkerClose

\* The whole program: keyboards that may be unplugged, and the owner's calls.
Next ==
    \/ Keyboards(MaxEvents)
    \/ \E d \in Devices : Unplug(d)
    \/ Owner(MaxStarts, MaxCancels)
    \/ Worker
    \/ ReplacedWorkerClose

Spec == Init /\ [][Next]_vars

\* One run of the program with keyboards that stay plugged in and type more.
LoopNext ==
    \/ Keyboards(LoopMaxEvents)
    \/ Owner(LoopMaxStarts, LoopMaxCancels)
    \/ Worker

LoopSpec == Init /\ [][LoopNext]_vars

\* The program started twice on keyboards that stay plugged in and type a chord.
RestartNext ==
    \/ Keyboards(RestartMaxEvents)
    \/ Owner(MaxStarts, RestartMaxCancels)
    \/ Worker
    \/ ReplacedWorkerClose

RestartSpec == Init /\ [][RestartNext]_vars

\* The program of Spec with the scheduling the threads get: the _run thread
\* keeps taking steps while it has one to take, and join() returns once the
\* thread has finished.
FairSpec == Init /\ [][Next]_vars /\ WF_vars(Worker) /\ WF_vars(CancelJoin)

\* The calls on the KeyboardEmulation object.
EmuNext ==
    \/ \E layout \in LayoutNames : UpdateLayout(layout)
    \/ \E string \in Texts : SendString(string)
    \/ \E count \in 0..MaxBackspaces : SendBackspaces(count)
    \/ \E key_events \in ParsedCombos : SendKeyCombination(key_events)

EmuSpec == Init /\ [][EmuNext]_vars

\* The device discovery of KeyboardCapture.__init__ on any list of devices.
DiscoveryNext ==
    GetDevices

DiscoverySpec == DiscoveryInit /\ [][DiscoveryNext]_vars

\* ------------------------------------------------------------------ properties
\* scan codes with a reverse-layout name that are not modifiers
MappedKeys == (DOMAIN KEYCODES_TO_SUPRESS) \ MODIFIER_KEY_CODES

\* the iteration reached _should_suppress and got its decision
Classified(outcome) == outcome \in {"written", "suppressed", "write_event"}

IsKeyEvent(event, c, v) ==
    event.type = EV_KEY /\ event.code = c /\ event.value = v

\* the modifier scan codes that are down after the first n iterations of this
\* run, counted from the events themselves
RECURSIVE ModifiersDownAfter(_)
ModifiersDownAfter(n) ==
    IF n = 0 THEN {}
    ELSE LET it == history[n]
             before == ModifiersDownAfter(n - 1)
         IN  IF ~Classified(it.outcome) \/ it.event.type # EV_KEY
                \/ it.event.code \notin MODIFIER_KEY_CODES
             THEN before
             ELSE IF it.event.value = key_down THEN before \cup {it.event.code}
             ELSE IF it.event.value = key_up THEN before \ {it.event.code}
             ELSE before

\* iteration i of this run is the key-down of c, classified while a modifier
\* was down
ChordedDownAt(i, c) ==
    /\ IsKeyEvent(history[i].event, c, key_down)
    /\ Classified(history[i].outcome)
    /\ ModifiersDownAfter(i - 1) # {}

\* iteration j is the first classified key-up of c after iteration i
NextKeyUpAt(i, j, c) ==
    /\ i < j
    /\ IsKeyEvent(history[j].event, c, key_up)
    /\ Classified(history[j].outcome)
    /\ \A k \in (i + 1)..(j - 1) :
          ~(IsKeyEvent(history[k].event, c, key_up) /\ Classified(history[k].outcome))

\* C1: within a run of the capture loop, when the key-down of a mapped
\* non-modifier key was classified while a modifier was down, the next key-up
\* of that scan code the loop classifies is written to the uinput device and the
\* scan code leaves keys_pressed_with_modifier, whatever self._suppressed_keys
\* holds and whether or not a modifier is still down.
AntiStuckKey ==
    \A c \in MappedKeys : \A i, j \in 1..Len(history) :
        (ChordedDownAt(i, c) /\ NextKeyUpAt(i, j, c))
            => /\ history[j].outcome = "written"
               /\ (j = Len(history) => /\ c \notin keys_pressed_with_modifier
                                       /\ ui_out # << >>
                                       /\ ui_out[Len(ui_out)] = history[j].event)

\* the latest iteration was over an EV_KEY event and reached _should_suppress
LastClassifiedKey ==
    Classified(last.outcome) /\ last.event.type = EV_KEY

\* the latest iteration wrote its event: it is the newest event of the device
LastWritten ==
    /\ last.outcome = "written"
    /\ ui_out # << >>
    /\ ui_out[Len(ui_out)] = last.event

\* C2: a key-down or key-up of a mapped non-modifier scan code, classified
\* while no modifier is down and the scan code is not in
\* keys_pressed_with_modifier, is written to the uinput device if and only if
\* its reverse-layout name is not in self._suppressed_keys.
SuppressedIffRequested ==
    (/\ LastClassifiedKey
     /\ last.event.code \in MappedKeys
     /\ last.event.value \in {key_down, key_up}
     /\ last.dm = {}
     /\ last.event.code \notin last.kpm)
        => (LastWritten <=> KEYCODES_TO_SUPRESS[last.event.code] \notin last.sk)

\* C3: a key-down of a mapped non-modifier scan code classified while a
\* modifier is down is written to the uinput device, its scan code joins
\* keys_pressed_with_modifier and key_down(name) went to the consumer, also when
\* the name is in self._suppressed_keys.
ChordedDownPassesThrough ==
    (/\ LastClassifiedKey
     /\ last.event.code \in MappedKeys
     /\ last.event.value = key_down
     /\ last.dm # {})
        => /\ LastWritten
           /\ last.event.code \in keys_pressed_with_modifier
           /\ callbacks # << >>
           /\ callbacks[Len(callbacks)]
                = <<"key_down", KEYCODES_TO_SUPRESS[last.event.code]>>

\* C4: every classified event of a modifier scan code is written to the uinput
\* device whatever self._suppressed_keys holds; a key-down adds the code to
\* down_modifier_keys, a key-up removes it, an autorepeat leaves the set alone.
ModifiersPassThrough ==
    (LastClassifiedKey /\ last.event.code \in MODIFIER_KEY_CODES)
        => /\ LastWritten
           /\ down_modifier_keys =
                IF last.event.value = key_down THEN last.dm \cup {last.event.code}
                ELSE IF last.event.value = key_up THEN last.dm \ {last.event.code}
                ELSE last.dm

\* C5: an EV_KEY event whose scan code has no reverse-layout name is written to
\* the uinput device without a callback and the loop goes on.
UnmappedPassesThrough ==
    (/\ last.outcome # "none"
     /\ last.event.type = EV_KEY
     /\ last.event.code \notin DOMAIN KEYCODES_TO_SUPRESS)
        => LastWritten

\* C6: a _run thread that has left its try block, by return or by any
\* exception, is in its finally block or past it, and when it has finished it
\* has called ungrab() on every device of self._devices, failed calls included,
\* and has closed the uinput device.
CleanupAlwaysRuns ==
    /\ (left_by # "none") <=> (worker_pc \in {"cleanup", "unregister", "done"})
    /\ worker_pc = "cleanup" => ungrab_tried = 1..(cleanup_idx - 1)
    /\ worker_pc = "unregister" => ungrab_tried = 1..cleanup_idx
    /\ worker_pc = "done" => (ungrab_tried = Devices /\ ui_closed)

\* C6 witness: the loop was left by an exception, ungrab() failed on the first
\* device (it is still registered), and the later devices were released and the
\* uinput device closed all the same.
CleanupWitness ==
    /\ worker_pc = "done" /\ left_by = "raise"
    /\ ~present[1] /\ registered[1]
    /\ \A d \in Devices \ {1} : d \in ungrab_tried /\ present[d]
                                  /\ ~grabbed[d] /\ ~registered[d]
    /\ ui_closed

\* C7: when cancel() has returned and the start() before it had succeeded, the
\* _run thread has finished and no device is grabbed.
CancelQuiesces ==
    (/\ owner_pc = "idle" /\ owner_done = "cancel"
     /\ starts > 0 /\ start_raised = "none")
        => /\ worker_pc = "done"
           /\ thread = "None"
           /\ \A d \in Devices : ~grabbed[d]

\* C7 witness: cancel() has returned from stopping a loop that had processed
\* events and left on reading the pipe.
CancelQuiescesWitness ==
    /\ owner_pc = "idle" /\ owner_done = "cancel"
    /\ starts > 0 /\ start_raised = "none"
    /\ left_by = "return" /\ pipe = 0
    /\ Len(history) >= 2
    /\ \A d \in Devices : present[d] /\ ~grabbed[d]

\* C8: whenever device.grab() takes effect the device has no key held.
GrabsOnlyWithNoKeyHeld ==
    [][\A d \in Devices : (~grabbed[d] /\ grabbed'[d]) => held[d] = {}]_vars

\* C9: when start() has ended with the exception of a failed device.grab(), no
\* device is left grabbed.
FailedStartReleasesAll ==
    (owner_pc = "idle" /\ owner_done = "start" /\ start_raised = "grab")
        => \A d \in Devices : ~grabbed[d]

\* the _run thread is inside its `while True` loop
LoopRunning == worker_pc \in {"select", "dispatch", "events"}

\* the loop was left by an exception the consumer or a device raised: a
\* key_down / key_up call or a device.read() that did not return
LeftByCallbackOrRead ==
    left_by = "raise" /\ last.outcome \notin {"KeyError", "write_event"}

\* C10: once cancel() has written to the pipe while the loop is running, the
\* loop eventually finds the pipe ready, reads it empty and returns, its
\* cleanup runs and cancel() returns; runs in which a consumer callback or a
\* device read raises instead of returning are left aside.
CancelObservedAndDrained ==
    (owner_pc = "join" /\ LoopRunning)
        ~> (/\ owner_pc = "idle" /\ owner_done = "cancel"
            /\ worker_pc = "done" /\ ui_closed /\ ungrab_tried = Devices
            /\ \/ left_by = "return" /\ pipe = 0
               \/ LeftByCallbackOrRead)

\* the callbacks an event is to produce: one for a key-down or key-up of a scan
\* code with an unshifted qwerty name, none for anything else
CallbacksDue(event) ==
    IF event.type = EV_KEY /\ event.code \in DOMAIN KEYCODES_TO_SUPRESS
       /\ event.value \in {key_down, key_up}
    THEN << << IF event.value = key_down THEN "key_down" ELSE "key_up",
               KEYCODES_TO_SUPRESS[event.code] >> >>
    ELSE << >>

\* C11: every iteration of the loop over a key-down or key-up of a scan code
\* with a reverse-layout name makes exactly one callback, key_down(name) or
\* key_up(name), whether the event is then suppressed or written; an iteration
\* over an autorepeat or any other event makes none, and no callback is made
\* outside an iteration.
OneCallbackPerKeyEvent ==
    [][/\ (Len(history') = Len(history) + 1)
            => callbacks' = callbacks \o CallbacksDue(history'[Len(history')].event)
       /\ (Len(history') # Len(history) + 1) => callbacks' = callbacks]_vars

\* C11 witness: with "a" suppressed, key-down(a) and key-up(a) were both
\* suppressed: nothing was written and the consumer got key_down("a") and
\* key_up("a"), in that order.
OneCallbackWitness ==
    /\ Len(history) = 2
    /\ IsKeyEvent(history[1].event, KEY_A, key_down)
    /\ IsKeyEvent(history[2].event, KEY_A, key_up)
    /\ history[1].outcome = "suppressed" /\ history[2].outcome = "suppressed"
    /\ ui_out = << >>
    /\ callbacks = << <<"key_down", "a">>, <<"key_up", "a">> >>

\* C12: every event written to the uinput device is, unchanged in type, scan
\* code and value, an event of the stream of the keyboard it was read from, and
\* the events written from one keyboard appear in the order the keyboard
\* produced them, none of them twice.
WrittenInDeviceOrder ==
    /\ Len(ui_src) = Len(ui_out)
    /\ \A k \in 1..Len(ui_out) :
          /\ ui_src[k][1] \in Devices
          /\ ui_src[k][2] \in 1..Len(stream[ui_src[k][1]])
          /\ ui_out[k] = stream[ui_src[k][1]][ui_src[k][2]]
    /\ \A k, l \in 1..Len(ui_out) :
          (k < l /\ ui_src[k][1] = ui_src[l][1]) => ui_src[k][2] < ui_src[l][2]

\* C12 witness: both keyboards have had events written, and of the first
\* keyboard an earlier and a later event were written while one between them
\* was not.
WrittenInDeviceOrderWitness ==
    /\ \E k \in 1..Len(ui_src) : ui_src[k][1] = 2
    /\ \E k, l \in 1..Len(ui_src) :
          /\ k < l
          /\ ui_src[k][1] = 1 /\ ui_src[l][1] = 1
          /\ ui_src[l][2] > ui_src[k][2] + 1
          /\ \A m \in 1..Len(ui_src) :
                ui_src[m][1] = 1 => ui_src[m][2] # ui_src[k][2] + 1

\* what the latest call on the KeyboardEmulation object wrote, and the key
\* events among it
CallWrites == SubSeq(emu_out, emu_call.from + 1, Len(emu_out))
CallKeys == SelectSeq(CallWrites, LAMBDA ev : ev.type = EV_KEY)
CallLogged == SubSeq(emu_log, emu_call.logged + 1, Len(emu_log))

\* every written key event is immediately followed by a SYN_REPORT, and
\* nothing else is written
EachKeyThenSyn(writes) ==
    /\ Len(writes) % 2 = 0
    /\ \A k \in 1..Len(writes) :
          IF k % 2 = 1 THEN writes[k].type = EV_KEY ELSE writes[k] = SynEv

\* keys is the bracket of one character: the modifiers down in listed order,
\* the base key down, the base key up, and one release of each modifier
IsBracket(keys, info) ==
    LET n == Len(info.modifiers)
    IN  /\ Len(keys) = 2 * n + 2
        /\ \A i \in 1..n : keys[i] = KeyEv(info.modifiers[i], 1)
        /\ keys[n + 1] = KeyEv(info.keycode, 1)
        /\ keys[n + 2] = KeyEv(info.keycode, 0)
        /\ \A i \in 1..n : \E j \in 1..n : keys[n + 2 + j] = KeyEv(info.modifiers[i], 0)
        /\ \A j \in 1..n : \E i \in 1..n : keys[n + 2 + j] = KeyEv(info.modifiers[i], 0)

\* keys is the brackets of the characters of string, in order
RECURSIVE AreBrackets(_, _, _)
AreBrackets(keys, table, string) ==
    IF string = << >> THEN keys = << >>
    ELSE LET m == 2 * Len(table[Head(string)].modifiers) + 2
         IN  /\ Len(keys) >= m
             /\ IsBracket(SubSeq(keys, 1, m), table[Head(string)])
             /\ AreBrackets(SubSeq(keys, m + 1, Len(keys)), table, Tail(string))

\* C13: a send_string call writes key events each immediately followed by a
\* synchronization report; when every character of the text has an entry in
\* the active layout, the key events are, character by character in order,
\* the modifiers down in listed order, the base key down, the base key up and
\* the modifiers up; send_string("Hi") on the default layout writes shift-down,
\* h-down, h-up, shift-up, i-down, i-up.
SendStringBrackets ==
    (emu_call.op = "send_string" /\ ~emu_call.raised) =>
        /\ EachKeyThenSyn(CallWrites)
        /\ (\A i \in 1..Len(emu_call.arg) : emu_call.arg[i] \in DOMAIN KEY_TO_KEYCODEINFO)
              => AreBrackets(CallKeys, KEY_TO_KEYCODEINFO, emu_call.arg)
        /\ (emu_call.arg = << "H", "i" >> /\ KEY_TO_KEYCODEINFO = LAYOUTS[DEFAULT_LAYOUT])
              => CallKeys = << KeyEv(KEY_LEFTSHIFT, 1), KeyEv(KEY_H, 1), KeyEv(KEY_H, 0),
                               KeyEv(KEY_LEFTSHIFT, 0), KeyEv(KEY_I, 1), KeyEv(KEY_I, 0) >>

\* C13 witness: send_string("Hi") has returned on the default layout, after
\* six key events and six synchronization reports.
SendStringWitness ==
    /\ emu_call.op = "send_string" /\ ~emu_call.raised
    /\ emu_call.arg = << "H", "i" >>
    /\ has_layout /\ KEY_TO_KEYCODEINFO = LAYOUTS[DEFAULT_LAYOUT]
    /\ Len(CallKeys) = 6 /\ Len(CallWrites) = 12

\* the list in reverse order
RECURSIVE ReverseOf(_)
ReverseOf(list) ==
    IF list = << >> THEN << >> ELSE Append(ReverseOf(Tail(list)), Head(list))

\* the key events one character is to produce: its modifiers down in listed
\* order, the base key down and up, the modifiers up in the reverse order
ReverseBracket(info) ==
    [i \in 1..Len(info.modifiers) |-> KeyEv(info.modifiers[i], 1)]
        \o << KeyEv(info.keycode, 1), KeyEv(info.keycode, 0) >>
        \o [i \in 1..Len(info.modifiers) |-> KeyEv(ReverseOf(info.modifiers)[i], 0)]

RECURSIVE ReverseBrackets(_, _)
ReverseBrackets(table, string) ==
    IF string = << >> THEN << >>
    ELSE ReverseBracket(table[Head(string)]) \o ReverseBrackets(table, Tail(string))

ImeTriggerKeys(table) ==
    << KeyEv(table["ctrl_l"].keycode, 1), KeyEv(table["shift"].keycode, 1),
       KeyEv(table["u"].keycode, 1), KeyEv(table["u"].keycode, 0),
       KeyEv(table["shift"].keycode, 0), KeyEv(table["ctrl_l"].keycode, 0) >>

\* the code points of the characters of the model that no layout, or not
\* every layout, has an entry for, in lowercase hexadecimal
CodePointDigits == ("\t" :> << "9" >>) @@ ("[" :> << "5", "b" >>)

\* C15: a character without an entry in the active layout is sent as the key
\* events of the IME trigger ctrl_l(shift(u)), then the digits of its code
\* point in lowercase hexadecimal (no prefix, no padding) typed as characters,
\* then one press and one release of Enter; every key event is followed by a
\* synchronization report and nothing is logged.
UnicodeFallback ==
    (/\ emu_call.op = "send_string" /\ ~emu_call.raised
     /\ Len(emu_call.arg) = 1
     /\ emu_call.arg[1] \notin DOMAIN KEY_TO_KEYCODEINFO) =>
        LET n == Len(CallKeys)
        IN  /\ EachKeyThenSyn(CallWrites)
            /\ CallLogged = << >>
            /\ n >= 8
            /\ SubSeq(CallKeys, 1, 6) = ImeTriggerKeys(KEY_TO_KEYCODEINFO)
            /\ AreBrackets(SubSeq(CallKeys, 7, n - 2), KEY_TO_KEYCODEINFO,
                           CodePointDigits[emu_call.arg[1]])
            /\ SubSeq(CallKeys, n - 1, n) = << KeyEv(KEY_ENTER, 1), KeyEv(KEY_ENTER, 0) >>

\* C15 witness: send_string("[") has returned on qwertz, which has no entry
\* for "[": six trigger events, "5", "b" and Enter were written.
UnicodeFallbackWitness ==
    /\ emu_call.op = "send_string" /\ ~emu_call.raised
    /\ emu_call.arg = << "[" >>
    /\ has_layout /\ KEY_TO_KEYCODEINFO = LAYOUTS["qwertz"]
    /\ "[" \notin DOMAIN KEY_TO_KEYCODEINFO
    /\ Len(CallKeys) = 12
    /\ CallKeys[7] = KeyEv(KEY_5, 1) /\ CallKeys[9] = KeyEv(KEY_B, 1)

\* C16: send_key_combination writes one key event, followed by a
\* synchronization report, for each (name, pressed) pair whose name has an
\* entry in the active layout, in the order of the pairs, with the scan code of
\* the entry and the value 1 when pressed and 0 when not; the modifiers of the
\* entry are not written; a pair whose name has no entry writes nothing, is
\* logged as a warning, and the pairs after it are still handled.
OneEventPerResolvedPair ==
    (emu_call.op = "send_key_combination" /\ ~emu_call.raised) =>
        LET resolved == SelectSeq(emu_call.arg,
                                  LAMBDA p : p[1] \in DOMAIN KEY_TO_KEYCODEINFO)
        IN  /\ EachKeyThenSyn(CallWrites)
            /\ Len(CallKeys) = Len(resolved)
            /\ \A i \in 1..Len(resolved) :
                  CallKeys[i] = [type |-> EV_KEY,
                                 code |-> KEY_TO_KEYCODEINFO[resolved[i][1]].keycode,
                                 value |-> IF resolved[i][2] THEN 1 ELSE 0]
            /\ Len(CallLogged) = Len(emu_call.arg) - Len(resolved)

\* C16 witness: the pairs of "hyper(a)" were sent on a layout with an entry
\* for "a" and none for "hyper": a-down and a-up were written after the first
\* warning, and a second warning was logged after them.
OneEventPerResolvedPairWitness ==
    /\ emu_call.op = "send_key_combination" /\ ~emu_call.raised
    /\ has_layout
    /\ emu_call.arg = << <<"hyper", TRUE>>, <<"a", TRUE>>, <<"a", FALSE>>, <<"hyper", FALSE>> >>
    /\ CallKeys = << KeyEv(KEY_A, 1), KeyEv(KEY_A, 0) >>
    /\ CallLogged = << Warning("key", "hyper"), Warning("key", "hyper") >>

\* C17: whatever bundled layout is active, every printable ASCII character
\* other than the five excluded control characters has an entry in it.
EveryPrintableResolves ==
    has_layout => \A c \in Printable : get_key(KEY_TO_KEYCODEINFO, c).found

\* C18: no device with a relative or an absolute axis capability (a mouse, a
\* touchpad) is among the devices _get_devices() keeps for grabbing, whatever
\* keys it reports.
NoPointerAccepted ==
    \A i \in 1..Len(accepted) :
        /\ EV_REL \notin DOMAIN accepted[i].capabilities
        /\ EV_ABS \notin DOMAIN accepted[i].capabilities

\* C19: no device whose name or phys is "py-evdev-uinput", the identity of
\* the uinput devices this process creates, is among the devices
\* _get_devices() keeps for grabbing, so the capture loop never reads what is
\* written to them.
UinputNeverAccepted ==
    \A i \in 1..Len(accepted) :
        /\ accepted[i].name # "py-evdev-uinput"
        /\ accepted[i].phys # "py-evdev-uinput"

\* C19 witness: list_devices() reported a uinput device with keyboard keys and
\* an ordinary keyboard; only the keyboard was kept.
UinputNeverAcceptedWitness ==
    /\ listed
    /\ candidates = << InputDeviceOf("py-evdev-uinput", "py-evdev-uinput",
                                     PlainKeyboard.capabilities),
                       PlainKeyboard >>
    /\ KEY_SPACE \in candidates[1].capabilities[EV_KEY]
    /\ accepted = << PlainKeyboard >>

\* C20: an event of a scan code that is in keys_pressed_with_modifier when it
\* is classified (its key-down was written because a modifier was down, its
\* key-up has not been classified yet) is never suppressed, autorepeat
\* included, whatever self._suppressed_keys holds.
ChordedKeyNeverSuppressed ==
    (LastClassifiedKey /\ last.event.code \in last.kpm)
        => last.outcome # "suppressed"

\* C21: within a run of the capture loop, when the key-down of a mapped
\* non-modifier key was written to the uinput device, the next key-up of that
\* scan code the loop classifies is not suppressed, however suppress() calls
\* of the owning thread interleave with the events.
WrittenDownHasWrittenUp ==
    \A c \in MappedKeys : \A i, j \in 1..Len(history) :
        (/\ IsKeyEvent(history[i].event, c, key_down)
         /\ history[i].outcome = "written"
         /\ NextKeyUpAt(i, j, c))
            => history[j].outcome # "suppressed"

\* no cancel() has been entered since the start() that made the present run:
\* start() was the last call of the owning thread to return, it made a thread,
\* and the owning thread is in no call (suppress() leaves owner_done alone)
NoCancelSinceStart ==
    owner_done = "start" /\ start_raised = "none" /\ owner_pc = "idle"

\* C22: the loop of a run leaves through the cancellation pipe only after a
\* cancel() issued during that run: a cancel() made while no loop was running
\* leaves nothing in the pipe that ends the loop of a later start().
WakeupOnlyFromOwnCancel ==
    ~(left_by = "return" /\ NoCancelSinceStart)

\* the loop of the present run is inside its try block
LoopInTry ==
    thread = "Thread" /\ worker_pc \in {"select", "dispatch", "events"}

\* C23: after a start() / cancel() cycle has completed, the loop of a later
\* start() has a uinput device it can write to, so that no pass-through
\* fails, and begins with down_modifier_keys and keys_pressed_with_modifier
\* empty.
RestartedLoopIsUsable ==
    /\ (cycled /\ LoopInTry) =>
          /\ ~ui_closed
          /\ history = << >>
                => down_modifier_keys = {} /\ keys_pressed_with_modifier = {}
    /\ (cycled /\ thread = "Thread") => last.outcome # "write_event"

\* the scan codes down on a uinput device after the key events `keys`, from
\* the scan codes `down` that were down before them
RECURSIVE HeldAfter(_, _)
HeldAfter(keys, down) ==
    IF keys = << >> THEN down
    ELSE HeldAfter(Tail(keys),
                   IF Head(keys).value = 1 THEN down \cup {Head(keys).code}
                   ELSE IF Head(keys).value = 0 THEN down \ {Head(keys).code}
                   ELSE down)

\* the key events written before the latest call
KeysBeforeCall ==
    SelectSeq(SubSeq(emu_out, 1, emu_call.from), LAMBDA ev : ev.type = EV_KEY)

\* C24: when send_string or send_backspaces has returned, every key-down it
\* wrote is followed, within the call, by a key-up of the same scan code and
\* the call leaves no key down: a device with no key down before the call has
\* none down after it; send_backspaces(n) writes n times Backspace down,
\* Backspace up and nothing else.
EmulatorKeyBalance ==
    (emu_call.op \in {"send_string", "send_backspaces"} /\ ~emu_call.raised) =>
        /\ \A i \in 1..Len(CallKeys) :
              CallKeys[i].value = 1
                 => \E j \in (i + 1)..Len(CallKeys) :
                        CallKeys[j] = KeyEv(CallKeys[i].code, 0)
        /\ HeldAfter(CallKeys, {}) = {}
        /\ HeldAfter(KeysBeforeCall, {}) = {}
              => HeldAfter(KeysBeforeCall \o CallKeys, {}) = {}
        /\ emu_call.op = "send_backspaces"
              => /\ Len(CallKeys) = 2 * emu_call.arg
                 /\ \A k \in 1..Len(CallKeys) :
                       CallKeys[k] = KeyEv(KEY_BACKSPACE, k % 2)

\* C24 witness: after send_backspaces(2) wrote its two pairs, send_string of a
\* tab (sent through the Unicode fallback) and "H" has returned, 14 key events
\* later, with no key left down.
EmulatorKeyBalanceWitness ==
    /\ emu_call.op = "send_string" /\ ~emu_call.raised
    /\ emu_call.arg = << "\t", "H" >>
    /\ "\t" \notin DOMAIN KEY_TO_KEYCODEINFO
    /\ KeysBeforeCall = << KeyEv(KEY_BACKSPACE, 1), KeyEv(KEY_BACKSPACE, 0),
                           KeyEv(KEY_BACKSPACE, 1), KeyEv(KEY_BACKSPACE, 0) >>
    /\ Len(CallKeys) = 14
    /\ HeldAfter(KeysBeforeCall \o CallKeys, {}) = {}

\* a modifier is down on some keyboard as far as the loop has been told: the
\* loop passed through the key-down of a modifier from a keyboard and no
\* key-up of that scan code from the same keyboard since (every modifier event
\* is passed through, and ui_src names the keyboard of each written event)
ModifierDownOnSomeDevice ==
    \E k \in 1..Len(ui_out) :
        /\ ui_out[k].type = EV_KEY
        /\ ui_out[k].code \in MODIFIER_KEY_CODES
        /\ ui_out[k].value = key_down
        /\ \A l \in (k + 1)..Len(ui_out) :
              ~(/\ ui_src[l][1] = ui_src[k][1]
                /\ ui_out[l] = KeyEv(ui_out[k].code, key_up))

\* C25: in a run whose uinput device is open, a key-down of a mapped
\* non-modifier key classified while some keyboard has a modifier down finds
\* down_modifier_keys non-empty and is not suppressed, also when the same
\* modifier scan code went down on two keyboards and up on one of them only.
ModifierOnAnyDeviceChords ==
    (/\ ~ui_closed
     /\ LastClassifiedKey
     /\ last.event.code \in MappedKeys
     /\ last.event.value = key_down
     /\ ModifierDownOnSomeDevice)
        => last.dm # {} /\ last.outcome # "suppressed"

\* nesting depth up to which the calls of _send_unicode are followed
MaxDepth == 3

SetMax(S) == CHOOSE x \in S : \A y \in S : y <= x

\* the characters _send_char sends again for a character without an entry:
\* the ones _send_unicode hands to send_string, and "\n"
ResentChars(char) ==
    { HexOf(Ord(char))[i] : i \in 1..Len(HexOf(Ord(char))) } \cup { "\n" }

\* a fallback that types the code point as a backslash followed by the digits
RECURSIVE FallbackDepthEscaped(_, _, _)
FallbackDepthEscaped(table, char, fuel) ==
    IF get_key(table, char).found THEN 0
    ELSE IF fuel = 0 THEN 1
    ELSE 1 + SetMax({ FallbackDepthEscaped(table, c, fuel - 1) :
                        c \in ResentChars(char) \cup { "\\" } })

\* how deep the calls _send_char -> _send_unicode -> send_string -> _send_char
\* nest for `char`: 0 when the character has an entry, otherwise one more than
\* the deepest of the characters sent again; the calls are followed to the
\* depth `fuel` + 1
RECURSIVE FallbackDepth(_, _, _)
FallbackDepth(table, char, fuel) ==
    IF get_key(table, char).found THEN 0
    ELSE IF fuel = 0 THEN 1
    ELSE 1 + SetMax({ FallbackDepth(table, c, fuel - 1) : c \in ResentChars(char) })

\* the characters with a code point in the model: printable ASCII and the
\* tab, the newline and the carriage return
ModelChars == Printable \cup { "\t", "\n", "\r" }

\* C26: under every layout _update_layout can install, the hexadecimal digits
\* and "\n" have entries, so that for every character the calls of
\* _send_unicode nest at most one deep and _send_char returns.
FallbackDepthAtMostOne ==
    has_layout =>
        /\ \A c \in { "0", "1", "2", "3", "4", "5", "6", "7", "8", "9",
                      "a", "b", "c", "d", "e", "f", "\n" } :
              c \in DOMAIN KEY_TO_KEYCODEINFO
        /\ \A c \in ModelChars : FallbackDepth(KEY_TO_KEYCODEINFO, c, MaxDepth) <= 1

\* C26 witness: send_string("[") has returned on qwertz after one fallback:
\* "[" has no entry there and the digits "5" and "b" were typed directly.
FallbackDepthWitness ==
    /\ emu_call.op = "send_string" /\ ~emu_call.raised
    /\ emu_call.arg = << "[" >>
    /\ has_layout /\ KEY_TO_KEYCODEINFO = LAYOUTS["qwertz"]
    /\ FallbackDepth(KEY_TO_KEYCODEINFO, "[", MaxDepth) = 1
    /\ Len(SubSeq(emu_out, emu_call.from + 1, Len(emu_out))) = 24

====
